---------------------------- MODULE Spec2Model ----------------------------
(***************************************************************************)
(* A model of the pieces of the hyperV-to-ova tool:                        *)
(*   - the progress monitor   (package ocp, waitForMigrationComplete),     *)
(*   - the descriptor compiler (package ova, FormatFromHyperV),            *)
(*   - the mapping assembler  (package ocp, discover*Mappings and the      *)
(*     identifier generators).                                             *)
(* Loosely typed Go values (interface{}) are tagged records: [str |-> s],  *)
(* [bool |-> b], [list |-> seq], [map |-> function from keys].  A key that *)
(* is missing from a Go map is a key outside the DOMAIN of the function.   *)
(***************************************************************************)
EXTENDS Integers, Sequences, FiniteSets, TLC

VARIABLES
    \* ---- progress monitor -------------------------------------------
    mpc,          \* position of waitForMigrationComplete: select / fetching / done
    now,          \* seconds since the call (folded once past every deadline)
    tickPending,  \* the ticker channel (capacity 1) holds a tick
    timeout,      \* the caller-supplied deadline, in seconds
    fetched,      \* the object the last successful getMigration returned
    result,       \* Polling / Succeeded / Failed / TimedOut / FetchError
    err,          \* the error text returned ("" is nil)
    fetchErr,     \* the last getMigration call returned an error
    fetches,      \* number of getMigration calls started (saturating)
    snapshots,    \* number of progress snapshots printed (saturating)
    \* ---- descriptor compiler ----------------------------------------
    opc,          \* idle / ready (inputs chosen) / done (FormatFromHyperV returned)
    vm,           \* the argument of FormatFromHyperV
    fsys,         \* the working directory: raw-file stem -> size in KiB, or Missing
    ovfOut,       \* what FormatFromHyperV returned
    \* ---- mapping assembler -------------------------------------------
    dpc,          \* idle / ready / networks (networks discovered) / done / failed
    outDir,       \* the output directory: its *.ovf and *.vhdx files
    ovaVMName,    \* the vmName RunOvaMigration was called with
    netOut,       \* what discoverNetworkMappings returned
    stoOut,       \* what discoverStorageMappings returned
    env,          \* which of NAMESPACE, OVA_PROVIDER_NFS_SERVER_PATH are set
    rpc,          \* position of RunOvaMigration after discovery
    written,      \* the documents written so far, in order
    applied,      \* the documents applied to the cluster so far, in order
    monitorStarted, \* waitForMigrationComplete has been called
    runErr,       \* the error RunOvaMigration returned ("" is nil)
    \* ---- identifier generator, called on its own --------------------
    calls,        \* the generator calls made so far, each with its result
    \* ---- one tick of the monitor on a status with VMs -----------------
    tickObj,      \* the object getMigration returned at this tick
    tickOutcome,  \* none (tick not yet handled) / Succeeded / Failed / Polling
    tickProgress, \* the lines of the progress text printed at this tick
    \* ---- guest operating system ------------------------------------
    spc,          \* start / classified / done, or token (direct lookup) / returned
    caption,      \* GuestOSInfo.Caption
    arch,         \* GuestOSInfo.OSArchitecture
    osType,       \* the token ("" before classification)
    osID,         \* the OVF operating-system id (0 before the lookup)
    \* ---- main: the per-VM goroutines and the cluster stage ------------
    names,        \* the VM names ListVMs returned
    mainpc,       \* main's position: spawn / wait / login / migrate / exited / fatal
    alive,        \* the process is running
    gpc,          \* per goroutine: unborn, its next step, ended or panicked
    failedAt,     \* per goroutine: the step whose failure was logged ("" for none)
    vmInfoMap,    \* per goroutine: its local vmInfoMap
    guestInfoJson, \* per goroutine: its local guestInfoJson
    outputFiles,  \* the files of the output directory
    migrated,     \* the VM names RunOvaMigration was called with
    \* ---- copyFileEfficient -----------------------------------------
    cpc,          \* idle / loop / done
    srcSize,      \* the size of the source (info.Size())
    offset,       \* the loop's offset variable
    sent,         \* the Sendfile calls made: offset passed, count, bytes moved
    copyRet       \* what copyFileEfficient returned: "" (running), nil or err

monitorVars ==
    <<mpc, now, tickPending, timeout, fetched, result, err, fetchErr, fetches, snapshots>>

ovfVars == <<opc, vm, fsys, ovfOut>>

mapVars ==
    <<dpc, outDir, ovaVMName, netOut, stoOut, env, rpc, written, applied, monitorStarted, runErr>>

genVars == <<calls>>

tickVars == <<tickObj, tickOutcome, tickProgress>>

osVars == <<spc, caption, arch, osType, osID>>

mainVars ==
    <<names, mainpc, alive, gpc, failedAt, vmInfoMap, guestInfoJson, outputFiles, migrated>>

copyVars == <<cpc, srcSize, offset, sent, copyRet>>

vars == <<monitorVars, ovfVars, mapVars, genVars, tickVars, osVars, mainVars, copyVars>>

\* What the steps of one component leave alone.
notMonitor == <<ovfVars, mapVars, genVars, tickVars, osVars, mainVars, copyVars>>

notOvf == <<monitorVars, mapVars, genVars, tickVars, osVars, mainVars, copyVars>>

notMap == <<monitorVars, ovfVars, genVars, tickVars, osVars, mainVars, copyVars>>

notGen == <<monitorVars, ovfVars, mapVars, tickVars, osVars, mainVars, copyVars>>

notTick == <<monitorVars, ovfVars, mapVars, genVars, osVars, mainVars, copyVars>>

notOs == <<monitorVars, ovfVars, mapVars, genVars, tickVars, mainVars, copyVars>>

notMain == <<monitorVars, ovfVars, mapVars, genVars, tickVars, osVars, copyVars>>

notCopy == <<monitorVars, ovfVars, mapVars, genVars, tickVars, osVars, mainVars>>

-----------------------------------------------------------------------------
(* Loosely typed values *)

JStr(s) == [str |-> s]

JBool(b) == [bool |-> b]

JList(q) == [list |-> q]

JMap(m) == [map |-> m]

JNum(n) == [num |-> n]

\* nil: a missing key, or a JSON null
JNil == [nil |-> TRUE]

IsNum(v) == "num" \in DOMAIN v

IsStr(v) == "str" \in DOMAIN v

IsMap(v) == "map" \in DOMAIN v

IsList(v) == "list" \in DOMAIN v

\* m[key] of a Go map, compared with a Go string: false when the key is
\* missing (nil) or holds a value of another type.
FieldIs(m, key, s) == key \in DOMAIN m /\ m[key] = JStr(s)

SeqsUpTo(S, n) == UNION {[1..k -> S] : k \in 0..n}

Min(a, b) == IF a < b THEN a ELSE b

-----------------------------------------------------------------------------
(* Progress monitor: bounds and inputs *)

PollInterval == 10

MaxConds == 2

MaxFetches == 3

MaxTime == 30

Timeouts == {5, 20}

Cond(t, s) == JMap([type |-> t, status |-> s])

CondValues ==
    { Cond(JStr("Succeeded"), JStr("True")),
      Cond(JStr("Failed"), JStr("True")),
      Cond(JStr("Succeeded"), JStr("False")),
      Cond(JStr("Failed"), JBool(TRUE)),
      JStr("junk") }

StatusValues ==
    { JStr("junk"),
      JMap([phase |-> JStr("Running")]),
      JMap([conditions |-> JStr("junk")]) }
    \cup { JMap([conditions |-> JList(q)]) : q \in SeqsUpTo(CondValues, MaxConds) }

\* The objects getMigration can return: with or without a status field.
MigrationObjects ==
    { [kind |-> JStr("Migration")] }
    \cup { [kind |-> JStr("Migration"), status |-> s] : s \in StatusValues }

NoMigration == [none |-> TRUE]

-----------------------------------------------------------------------------
(* unstructured.NestedMap / NestedSlice on one level: found, err, value *)

NestedMap(obj, key) ==
    IF key \notin DOMAIN obj THEN [found |-> FALSE, err |-> FALSE, val |-> <<>>]
    ELSE IF ~IsMap(obj[key]) THEN [found |-> FALSE, err |-> TRUE, val |-> <<>>]
    ELSE [found |-> TRUE, err |-> FALSE, val |-> obj[key].map]

NestedSlice(obj, key) ==
    IF key \notin DOMAIN obj THEN [found |-> FALSE, err |-> FALSE, val |-> <<>>]
    ELSE IF ~IsList(obj[key]) THEN [found |-> FALSE, err |-> TRUE, val |-> <<>>]
    ELSE [found |-> TRUE, err |-> FALSE, val |-> obj[key].list]

RECURSIVE scanConditions(_, _, _)
\* for _, c := range conditions: skip non-maps, stop at the first match
scanConditions(conditions, i, wanted) ==
    IF i > Len(conditions) THEN FALSE
    ELSE IF ~IsMap(conditions[i]) THEN scanConditions(conditions, i + 1, wanted)
    ELSE IF FieldIs(conditions[i].map, "type", wanted)
            /\ FieldIs(conditions[i].map, "status", "True") THEN TRUE
    ELSE scanConditions(conditions, i + 1, wanted)

conditionScan(migration, wanted) ==
    LET status == NestedMap(migration, "status") IN
    IF ~status.found \/ status.err THEN FALSE
    ELSE LET conditions == NestedSlice(status.val, "conditions") IN
         IF ~conditions.found \/ conditions.err THEN FALSE
         ELSE scanConditions(conditions.val, 1, wanted)

isMigrationSucceeded(migration) == conditionScan(migration, "Succeeded")

\* Mutant: the scan accepts a condition by its type alone, whatever its status.
isMigrationFailed_TypeOnly(migration) ==
    LET status == NestedMap(migration, "status") IN
    IF ~status.found \/ status.err THEN FALSE
    ELSE LET conditions == NestedSlice(status.val, "conditions") IN
         IF ~conditions.found \/ conditions.err THEN FALSE
         ELSE \E i \in 1..Len(conditions.val) :
                /\ IsMap(conditions.val[i])
                /\ FieldIs(conditions.val[i].map, "type", "Failed")

isMigrationFailed(migration) == conditionScan(migration, "Failed")

ErrTimeout == "timeout waiting for migration to complete"

ErrFetch == "failed to get migration"

ErrFailed == "migration failed"

-----------------------------------------------------------------------------
(* Progress monitor: the run of waitForMigrationComplete *)

MonitorIdle ==
    /\ mpc = "idle"
    /\ now = 0
    /\ tickPending = FALSE
    /\ timeout = 0
    /\ fetched = NoMigration
    /\ result = "Polling"
    /\ err = ""
    /\ fetchErr = FALSE
    /\ fetches = 0
    /\ snapshots = 0

\* Mutant: the ticker holds a tick from the start.
MonitorInit_TickAtOnce ==
    /\ mpc = "select"
    /\ now = 0
    /\ tickPending = TRUE
    /\ timeout \in Timeouts
    /\ fetched = NoMigration
    /\ result = "Polling"
    /\ err = ""
    /\ fetchErr = FALSE
    /\ fetches = 0
    /\ snapshots = 0

MonitorInit ==
    /\ mpc = "select"
    /\ now = 0
    /\ tickPending = FALSE
    /\ timeout \in Timeouts
    /\ fetched = NoMigration
    /\ result = "Polling"
    /\ err = ""
    /\ fetchErr = FALSE
    /\ fetches = 0
    /\ snapshots = 0

\* Mutant: a context without deadline.
ctxDone_Never == FALSE

ctxDone == now >= timeout

\* Time passes by half a poll interval.  The ticker sends a tick at every
\* multiple of the interval; a tick sent to a full channel is dropped.  Past
\* MaxTime (later than every deadline) the clock is folded back by one
\* interval: only the phase within the interval matters from there on.
Advance ==
    /\ mpc \in {"select", "fetching"}
    /\ LET t == now + PollInterval \div 2 IN
       /\ now' = IF t > MaxTime THEN t - PollInterval ELSE t
       /\ tickPending' = (tickPending \/ t % PollInterval = 0)
    /\ UNCHANGED <<mpc, timeout, fetched, result, err, fetchErr, fetches, snapshots>>
    /\ UNCHANGED notMonitor

\* A case of the select is ready: the goroutine blocked in it is woken.
selectReady == mpc = "select" /\ (ctxDone \/ tickPending)

\* Time as the select sees it: it blocks only while no case is ready, so no
\* time passes between a case becoming ready and the select taking a case.
\* A fetch takes any time.
AdvanceBlocked ==
    /\ ~selectReady
    /\ Advance

\* Mutant: the timeout case leaves the select but not the loop.
SelectTimeout_NoReturn ==
    /\ mpc = "select"
    /\ ctxDone
    /\ result' = "TimedOut"
    /\ err' = ErrTimeout
    /\ UNCHANGED <<mpc, now, tickPending, timeout, fetched, fetchErr, fetches, snapshots>>
    /\ UNCHANGED notMonitor

\* case <-ctx.Done(): return timeout error
SelectTimeout ==
    /\ mpc = "select"
    /\ ctxDone
    /\ mpc' = "done"
    /\ result' = "TimedOut"
    /\ err' = ErrTimeout
    /\ UNCHANGED <<now, tickPending, timeout, fetched, fetchErr, fetches, snapshots>>
    /\ UNCHANGED notMonitor

\* case <-ticker.C: the tick is taken and getMigration is called
SelectTick ==
    /\ mpc = "select"
    /\ tickPending
    /\ tickPending' = FALSE
    /\ mpc' = "fetching"
    /\ fetches' = Min(fetches + 1, MaxFetches)
    /\ UNCHANGED <<now, timeout, fetched, result, err, fetchErr, snapshots>>
    /\ UNCHANGED notMonitor

\* Mutant: a failed fetch is logged and the loop polls again.
FetchFail_Retry ==
    /\ mpc = "fetching"
    /\ mpc' = "select"
    /\ fetchErr' = TRUE
    /\ UNCHANGED <<now, tickPending, timeout, fetched, result, err, fetches, snapshots>>
    /\ UNCHANGED notMonitor

\* getMigration returned an error
FetchFail ==
    /\ mpc = "fetching"
    /\ mpc' = "done"
    /\ result' = "FetchError"
    /\ err' = ErrFetch
    /\ fetchErr' = TRUE
    /\ UNCHANGED <<now, tickPending, timeout, fetched, fetches, snapshots>>
    /\ UNCHANGED notMonitor

\* Mutant: the Failed scan runs before the Succeeded scan.
Classify_FailedFirst(migration) ==
    IF isMigrationFailed(migration) THEN "Failed"
    ELSE IF isMigrationSucceeded(migration) THEN "Succeeded"
    ELSE "Polling"

\* What the loop body does with a fetched object.
Classify(migration) ==
    IF isMigrationSucceeded(migration) THEN "Succeeded"
    ELSE IF isMigrationFailed(migration) THEN "Failed"
    ELSE "Polling"

\* getMigration returned an object: classify it, return or print progress
FetchOk ==
    /\ mpc = "fetching"
    /\ \E migration \in MigrationObjects :
         /\ fetched' = migration
         /\ fetchErr' = FALSE
         /\ LET outcome == Classify(migration) IN
            /\ result' = outcome
            /\ mpc' = IF outcome = "Polling" THEN "select" ELSE "done"
            /\ err' = IF outcome = "Failed" THEN ErrFailed ELSE ""
            /\ snapshots' = IF outcome = "Polling"
                              THEN Min(snapshots + 1, MaxFetches)
                              ELSE snapshots
    /\ UNCHANGED <<now, tickPending, timeout, fetches>>
    /\ UNCHANGED notMonitor

MonitorNext ==
    \/ Advance
    \/ SelectTimeout
    \/ SelectTick
    \/ FetchFail
    \/ FetchOk

-----------------------------------------------------------------------------
(* Descriptor compiler: bounds and inputs *)

MaxDrives == 3

MaxAdapters == 2

\* Sizes are counted in KiB (10 GiB, the fallback of line 168, is 10485760 KiB).
FallbackCapacity == 10485760

Missing == -1

\* A Windows or POSIX path, already split where filepath.Base and
\* filepath.Ext split it: directory, base name without extension, extension.
WinPath(dir, stem, ext) == [dir |-> dir, stem |-> stem, ext |-> ext]

\* A file name: base name and extension.
FileName(stem, ext) == [stem |-> stem, ext |-> ext]

DriveValues ==
    { JStr("Microsoft.HyperV.PowerShell.HardDiskDrive"),
      JMap([Path |-> [path |-> WinPath("C:\\VMs", "disk1", ".vhdx")]]),
      JMap([Path |-> [path |-> WinPath("D:\\Hyper-V\\Disks", "disk2", ".vhd")]]) }

AdapterValues ==
    { JStr("Microsoft.HyperV.PowerShell.VMNetworkAdapter"),
      JMap([Name |-> JStr("")]),
      JMap([Name |-> JStr("LAN")]) }

HardwareValues ==
    { [ProcessorCount |-> JNil, MemoryStartup |-> JNil],
      [ProcessorCount |-> JNum(2), MemoryStartup |-> JNum(2097152 + 512)] }

\* The values FormatFromHyperV can be handed: a VM map, or something else.
VMRecords ==
    { JStr("not a map") }
    \cup { JMap([Name |-> JStr("vm1"),
                 ProcessorCount |-> hw.ProcessorCount,
                 MemoryStartup |-> hw.MemoryStartup,
                 HardDrives |-> hd,
                 NetworkAdapters |-> na]) :
             hw \in HardwareValues,
             hd \in {JNil} \cup {JList(q) : q \in SeqsUpTo(DriveValues, MaxDrives)},
             na \in {JNil} \cup {JList(q) : q \in SeqsUpTo(AdapterValues, MaxAdapters)} }

WorkDirs == [{"disk1"} -> {Missing, 4096}] \X [{"disk2"} -> {Missing, 1024}]

NoOutput == [none |-> TRUE]

-----------------------------------------------------------------------------
(* Descriptor compiler: FormatFromHyperV *)

\* os.Stat(filepath.Join(wd, fileName)): the size, or an error
Stat(wd, fileName) ==
    IF fileName.ext = ".raw" /\ fileName.stem \in DOMAIN wd /\ wd[fileName.stem] # Missing
    THEN [ok |-> TRUE, size |-> wd[fileName.stem]]
    ELSE [ok |-> FALSE, size |-> 0]

\* Mutant: a drive whose raw file is missing gets the fallback capacity.
resolveCapacity_Fallback(wd, fileName) ==
    IF Stat(wd, fileName).ok
    THEN [ok |-> TRUE, size |-> Stat(wd, fileName).size]
    ELSE [ok |-> TRUE, size |-> FallbackCapacity]

\* diskCapacity := fallback; if stat succeeds, the size; else return an error
resolveCapacity(wd, fileName) ==
    IF Stat(wd, fileName).ok
    THEN [ok |-> TRUE, size |-> Stat(wd, fileName).size]
    ELSE [ok |-> FALSE, size |-> FallbackCapacity]

\* pathRaw, _ := hd["Path"].(string); normalise, Base, TrimSuffix(Ext), + ".raw"
rawFileName(hd) ==
    IF "Path" \in DOMAIN hd /\ "path" \in DOMAIN hd.Path
    THEN FileName(hd.Path.path.stem, ".raw")
    ELSE FileName("", ".raw")

\* Mutant: every file gets the same id.
fileRefID_Const(diskIndex) == "file1"

fileRefID(diskIndex) == "file" \o ToString(diskIndex)

\* Mutant: every disk gets the same id.
diskID_Const(diskIndex) == "vmdisk1"

diskID(diskIndex) == "vmdisk" \o ToString(diskIndex)

hostResource(id) == "ovf:/disk/" \o id

\* Mutant: the counter is not advanced.
nextInstanceID_Stuck(itemInstanceID) == itemInstanceID

\* itemInstanceID++
nextInstanceID(itemInstanceID) == itemInstanceID + 1

\* ideControllerID := strconv.Itoa(itemInstanceID)
controllerID(itemInstanceID) == ToString(itemInstanceID)

\* An Item with the fields no branch sets left at their zero values.
Item(instanceID, resourceType, elementName) ==
    [InstanceID |-> ToString(instanceID), ResourceType |-> resourceType,
     ElementName |-> elementName, VirtualQuantity |-> 0, Address |-> "",
     HostResource |-> "", Parent |-> "", AddressOnParent |-> "", Connection |-> ""]

\* The state of the loops: what has been appended so far.
Building(files, disks, networks, items, itemInstanceID, failed) ==
    [files |-> files, disks |-> disks, networks |-> networks, items |-> items,
     itemInstanceID |-> itemInstanceID, failed |-> failed]

RECURSIVE hardDisks(_, _, _, _, _)
\* for i, raw := range hdList, with k = i + 1
hardDisks(hdList, k, b, wd, ideControllerID) ==
    IF k > Len(hdList) THEN b
    ELSE IF ~IsMap(hdList[k]) THEN hardDisks(hdList, k + 1, b, wd, ideControllerID)
    ELSE
      LET fileName == rawFileName(hdList[k].map)
          capacity == resolveCapacity(wd, fileName)
          file == [ID |-> fileRefID(k), Href |-> fileName, Size |-> capacity.size]
          disk == [Capacity |-> capacity.size, CapacityAllocationUnits |-> "byte",
                   DiskID |-> diskID(k), FileRef |-> fileRefID(k)]
          item == [Item(b.itemInstanceID, 17, "Hard Disk " \o ToString(k))
                     EXCEPT !.HostResource = hostResource(diskID(k)),
                            !.Parent = ideControllerID,
                            !.AddressOnParent = ToString(k - 1)]
      IN IF ~capacity.ok
         THEN [b EXCEPT !.failed = TRUE]
         ELSE hardDisks(hdList, k + 1,
                        Building(Append(b.files, file), Append(b.disks, disk),
                                 b.networks, Append(b.items, item),
                                 nextInstanceID(b.itemInstanceID), FALSE),
                        wd, ideControllerID)

RECURSIVE networkInterfaces(_, _, _)
\* for i, a := range adapters, with k = i + 1
networkInterfaces(adapters, k, b) ==
    IF k > Len(adapters) THEN b
    ELSE IF ~IsMap(adapters[k]) THEN networkInterfaces(adapters, k + 1, b)
    ELSE
      LET adapter == adapters[k].map
          networkName ==
              IF "Name" \in DOMAIN adapter /\ IsStr(adapter.Name) /\ adapter.Name.str # ""
              THEN adapter.Name.str
              ELSE "VM Network " \o ToString(k)
          network == [Name |-> networkName,
                      Description |-> "Network interface " \o ToString(k)]
          item == [Item(b.itemInstanceID, 10, "Ethernet " \o ToString(k))
                     EXCEPT !.Connection = networkName]
      IN networkInterfaces(adapters, k + 1,
                           Building(b.files, b.disks, Append(b.networks, network),
                                    Append(b.items, item),
                                    nextInstanceID(b.itemInstanceID), FALSE))

FormatFromHyperV(v, wd) ==
    IF ~IsMap(v) THEN [ok |-> FALSE, err |-> "invalid VM format"]
    ELSE
      LET vmMap == v.map
          cpuCount == IF IsNum(vmMap.ProcessorCount) THEN vmMap.ProcessorCount.num ELSE 1
          memoryMB == IF IsNum(vmMap.MemoryStartup)
                      THEN vmMap.MemoryStartup.num \div 1024 ELSE 1024
          cpuID == 1
          memID == nextInstanceID(cpuID)
          ideID == nextInstanceID(memID)
          cpu == [Item(cpuID, 3, ToString(cpuCount) \o " virtual CPU(s)")
                    EXCEPT !.VirtualQuantity = cpuCount]
          memory == [Item(memID, 4, ToString(memoryMB) \o "MB of memory")
                       EXCEPT !.VirtualQuantity = memoryMB]
          ideControllerID == controllerID(ideID)
          ide == [Item(ideID, 5, "VirtualIDEController 0")
                    EXCEPT !.InstanceID = ideControllerID, !.Address = "0"]
          start == Building(<<>>, <<>>, <<>>, <<cpu, memory, ide>>,
                            nextInstanceID(ideID), FALSE)
          afterDisks == IF IsList(vmMap.HardDrives)
                        THEN hardDisks(vmMap.HardDrives.list, 1, start, wd, ideControllerID)
                        ELSE start
          afterNets == IF IsList(vmMap.NetworkAdapters)
                       THEN networkInterfaces(vmMap.NetworkAdapters.list, 1, afterDisks)
                       ELSE afterDisks
          vmName == IF IsStr(vmMap.Name) THEN vmMap.Name.str ELSE "VM"
      IN IF afterDisks.failed
         THEN [ok |-> FALSE, err |-> "failed to get size of raw disk file"]
         ELSE [ok |-> TRUE,
               env |-> [References |-> afterNets.files,
                        DiskSection |-> afterNets.disks,
                        NetworkSection |-> afterNets.networks,
                        VirtualSystem |-> [ID |-> vmName, Name |-> vmName,
                                           Items |-> afterNets.items]]]

OvfIdle ==
    /\ opc = "idle"
    /\ vm = JNil
    /\ fsys = <<>>
    /\ ovfOut = NoOutput

OvfInit ==
    /\ opc = "ready"
    /\ vm \in VMRecords
    /\ \E wd \in WorkDirs : fsys = wd[1] @@ wd[2]
    /\ ovfOut = NoOutput

\* The call of FormatFromHyperV on the chosen record and working directory.
Compile ==
    /\ opc = "ready"
    /\ opc' = "done"
    /\ ovfOut' = FormatFromHyperV(vm, fsys)
    /\ UNCHANGED <<vm, fsys>>
    /\ UNCHANGED notOvf

-----------------------------------------------------------------------------
(* Mapping assembler: bounds and inputs *)

MaxNetworks == 2

MaxHrefs == 3

destStorageClass == "nfs-csi"

destNetworkType == "pod"

sourceNetworkName == "Network Adapter"

NetworkNames == {"LAN", "VM Network 1"}

HrefValues == {FileName("disk1", ".vhdx"), FileName("disk2", ".vhdx"), FileName("disk1", ".raw")}

\* What the line scans of extractNetworksFromOVF and extractDisksFromOVF can
\* find in an OVF file: the Network names and the File hrefs, in file order.
OvfFiles ==
    { [readable |-> FALSE, networks |-> <<>>, hrefs |-> <<>>] }
    \cup { [readable |-> TRUE, networks |-> n, hrefs |-> h] :
             n \in SeqsUpTo(NetworkNames, MaxNetworks),
             h \in SeqsUpTo(HrefValues, MaxHrefs) }

\* The *.vhdx files of the directory, in the (sorted) order Glob returns them.
VhdxLists ==
    LET d(stem, size) == [name |-> FileName(stem, ".vhdx"), size |-> size] IN
    { <<>>, <<d("disk1", 4096)>>, <<d("disk2", 1024)>>,
      <<d("disk1", 4096), d("disk2", 1024)>>,
      <<d("disk1", 4096), d("disk2", 1024), d("disk3", 0)>> }

OutputDirs ==
    { [ovfs |-> o, vhdx |-> v] :
        o \in {<<>>} \cup {<<f>> : f \in OvfFiles}, v \in VhdxLists }

NoMappings == [none |-> TRUE]

-----------------------------------------------------------------------------
(* Identifier generation *)

HexDigits ==
    <<"0", "1", "2", "3", "4", "5", "6", "7", "8", "9", "a", "b", "c", "d", "e", "f">>

\* The strings that are hashed, numbered: the bytes of a string are stood for
\* by its number.
KnownStrings ==
    <<"LAN", "VM Network 1", "disk1", "disk2", "disk3", ".vhdx", ".raw",
      "fallback-storage", "byte">>

StringCode(str) ==
    IF \E i \in 1..Len(KnownStrings) : KnownStrings[i] = str
    THEN CHOOSE i \in 1..Len(KnownStrings) : KnownStrings[i] = str
    ELSE Len(KnownStrings) + Len(str)

FileNameBytes(fileName) == <<StringCode(fileName.stem), StringCode(fileName.ext)>>

RECURSIVE mix(_, _, _)
mix(bytes, i, h) ==
    IF i > Len(bytes) THEN h ELSE mix(bytes, i + 1, (h * 31 + bytes[i] + 7) % 65521)

\* hex.EncodeToString(sha256.Sum256(bytes)): 64 lowercase hexadecimal digits
\* that are a function of the bytes (the digest itself is stood for by a
\* small mixing function).
sha256Hex(bytes) ==
    LET h == mix(bytes, 1, 17) IN
    [k \in 1..64 |-> HexDigits[(((h \div k) + h * k + k) % 16) + 1]]

\* gob encoding of a value: an error for nil, else bytes that are a function
\* of the value's type and fields.
gobEncode(object) ==
    IF "nil" \in DOMAIN object THEN [err |-> TRUE, bytes |-> <<>>]
    ELSE IF "str" \in DOMAIN object
      THEN [err |-> FALSE, bytes |-> <<1, StringCode(object.str)>>]
    ELSE [err |-> FALSE,
          bytes |-> <<2>> \o FileNameBytes(object.Name)
                      \o <<object.Capacity, StringCode(object.CapacityAllocationUnits),
                           object.Index, object.PopulatedSize>>]

\* Mutant: the digest is returned whole.
generateForkliftUUID_NoTruncation(object, key) ==
    LET enc == gobEncode(object) IN
    IF enc.err THEN [err |-> TRUE, id |-> <<>>]
    ELSE [err |-> FALSE, id |-> sha256Hex(enc.bytes)]

\* Mutant: the key is hashed together with the encoded object.
generateForkliftUUID_KeyFolded(object, key) ==
    LET enc == gobEncode(object) IN
    IF enc.err THEN [err |-> TRUE, id |-> <<>>]
    ELSE [err |-> FALSE, id |-> SubSeq(sha256Hex(enc.bytes \o <<Len(key)>>), 1, 32)]

generateForkliftUUID(object, key) ==
    LET enc == gobEncode(object) IN
    IF enc.err THEN [err |-> TRUE, id |-> <<>>]
    ELSE LET id == sha256Hex(enc.bytes) IN
         [err |-> FALSE, id |-> IF Len(id) > 32 THEN SubSeq(id, 1, 32) ELSE id]

knownNetworkIDs ==
    << <<"d", "7", "2", "2", "0", "7", "2", "e", "0", "2", "9", "4", "8", "1", "b", "6", "c", "a",
         "7", "6", "9", "f", "1", "7", "e", "8", "f", "c", "1", "1", "2", "a", "9", "f", "3", "0">> >>

knownStorageIDs ==
    << <<"d", "f", "b", "1", "a", "9", "8", "0", "1", "4", "0", "d", "e", "f", "3", "d", "2", "9",
         "d", "0", "c", "d", "6", "9", "0", "3", "4", "f", "9", "6", "6", "2", "f", "c", "8", "d">>,
       <<"b", "1", "8", "7", "2", "f", "d", "2", "3", "5", "a", "d", "7", "6", "9", "2", "d", "8",
         "7", "c", "a", "0", "4", "1", "d", "d", "b", "4", "a", "5", "2", "3", "a", "a", "8", "2">> >>

generateNetworkID(networkName, index) ==
    IF index < Len(knownNetworkIDs) THEN knownNetworkIDs[index + 1]
    ELSE LET r == generateForkliftUUID(JStr(networkName), networkName) IN
         IF r.err THEN SubSeq(sha256Hex(<<StringCode(networkName)>>), 1, 32)
         ELSE r.id

\* The VmDisk that generateStorageID builds for a disk.  DiskId and FileRef
\* are both made of index+1; Index stands for the two.
vmDisk(disk, index) ==
    [Name |-> disk.FileName, Capacity |-> disk.Size,
     CapacityAllocationUnits |-> "byte", Index |-> index + 1,
     PopulatedSize |-> disk.Size]

\* Mutant: only the first entry of the pool is used.
generateStorageID_FirstOnly(disk, index) ==
    IF index < 1
    THEN [err |-> FALSE, id |-> knownStorageIDs[index + 1]]
    ELSE generateForkliftUUID(vmDisk(disk, index),
                              "vm.ovf/" \o disk.FileName.stem \o disk.FileName.ext)

generateStorageID(disk, index) ==
    IF index < Len(knownStorageIDs)
    THEN [err |-> FALSE, id |-> knownStorageIDs[index + 1]]
    ELSE generateForkliftUUID(vmDisk(disk, index),
                              "vm.ovf/" \o disk.FileName.stem \o disk.FileName.ext)

generateFallbackStorageID(fileName, index) ==
    SubSeq(sha256Hex(FileNameBytes(fileName)
                       \o <<index, StringCode("fallback-storage")>>), 1, 32)

-----------------------------------------------------------------------------
(* The identifier generator called on its own: any object, key and index *)

MaxCalls == 2

MaxIndex == 3

GenDisks ==
    { [FileName |-> FileName(stem, ".vhdx"), Size |-> size] :
        stem \in {"disk1", "disk2"}, size \in {0, 4096} }

\* What the program passes as object: a network name, or a VmDisk.
GenObjects ==
    { JStr(n) : n \in NetworkNames } \cup { vmDisk(d, MaxIndex) : d \in GenDisks }

GenKeys == {"LAN", "VM Network 1", "vm.ovf/disk1.vhdx"}

GenIdle == calls = <<>>

GenInit == calls = <<>>

CallForkliftUUID ==
    /\ Len(calls) < MaxCalls
    /\ \E object \in GenObjects, key \in GenKeys :
         calls' = Append(calls, [fn |-> "generateForkliftUUID", object |-> object,
                                 key |-> key,
                                 ret |-> generateForkliftUUID(object, key)])
    /\ UNCHANGED notGen

CallNetworkID ==
    /\ Len(calls) < MaxCalls
    /\ \E name \in NetworkNames, index \in 0..MaxIndex :
         calls' = Append(calls, [fn |-> "generateNetworkID", name |-> name,
                                 index |-> index,
                                 id |-> generateNetworkID(name, index)])
    /\ UNCHANGED notGen

CallStorageID ==
    /\ Len(calls) < MaxCalls
    /\ \E disk \in GenDisks, index \in 0..MaxIndex :
         calls' = Append(calls, [fn |-> "generateStorageID", disk |-> disk,
                                 index |-> index,
                                 ret |-> generateStorageID(disk, index)])
    /\ UNCHANGED notGen

-----------------------------------------------------------------------------
(* Mapping assembler: discoverNetworkMappings, discoverStorageMappings *)

extractNetworksFromOVF(ovfFile) ==
    IF ~ovfFile.readable THEN [err |-> TRUE, networks |-> <<>>]
    ELSE [err |-> FALSE, networks |-> ovfFile.networks]

defaultNetworkMapping ==
    [SourceID |-> knownNetworkIDs[1],
     SourceName |-> sourceNetworkName, DestinationType |-> destNetworkType]

\* Mutant: no default mapping for a descriptor without networks.
discoverNetworkMappings_NoDefault(dir) ==
    IF Len(dir.ovfs) = 0 THEN [err |-> TRUE, mappings |-> <<>>]
    ELSE LET x == extractNetworksFromOVF(dir.ovfs[1]) IN
         IF x.err THEN [err |-> TRUE, mappings |-> <<>>]
         ELSE [err |-> FALSE,
               mappings |-> [i \in 1..Len(x.networks) |->
                               [SourceID |-> generateNetworkID(x.networks[i], i - 1),
                                SourceName |-> x.networks[i],
                                DestinationType |-> destNetworkType]]]

discoverNetworkMappings(dir) ==
    IF Len(dir.ovfs) = 0 THEN [err |-> TRUE, mappings |-> <<>>]
    ELSE LET x == extractNetworksFromOVF(dir.ovfs[1]) IN
         IF x.err THEN [err |-> TRUE, mappings |-> <<>>]
         ELSE LET networkMappings ==
                    [i \in 1..Len(x.networks) |->
                       [SourceID |-> generateNetworkID(x.networks[i], i - 1),
                        SourceName |-> x.networks[i],
                        DestinationType |-> destNetworkType]]
              IN [err |-> FALSE,
                  mappings |-> IF Len(networkMappings) = 0
                               THEN <<defaultNetworkMapping>>
                               ELSE networkMappings]

\* The hrefs of the File lines that end in ".vhdx", as DiskInfo without path.
extractDisksFromOVF(ovfFile) ==
    IF ~ovfFile.readable THEN [err |-> TRUE, disks |-> <<>>]
    ELSE [err |-> FALSE,
          disks |-> LET vhdx == SelectSeq(ovfFile.hrefs, LAMBDA h : h.ext = ".vhdx") IN
                    [i \in 1..Len(vhdx) |-> [FileName |-> vhdx[i], Size |-> 0]]]

\* os.Stat of a name in the output directory
statInDir(dir, fileName) ==
    IF \E i \in 1..Len(dir.vhdx) : dir.vhdx[i].name = fileName
    THEN [ok |-> TRUE,
          size |-> dir.vhdx[CHOOSE i \in 1..Len(dir.vhdx) : dir.vhdx[i].name = fileName].size]
    ELSE [ok |-> FALSE, size |-> 0]

\* diskInfo as it stands before the mapping loop: the disks of the first
\* descriptor when it names any, with the size of the file of that name when
\* there is one; else the *.vhdx files of the directory.
diskInfoOf(dir) ==
    LET ovfDisks == IF Len(dir.ovfs) > 0 /\ ~extractDisksFromOVF(dir.ovfs[1]).err
                    THEN extractDisksFromOVF(dir.ovfs[1]).disks
                    ELSE <<>>
    IN IF Len(ovfDisks) = 0
       THEN [i \in 1..Len(dir.vhdx) |->
               [FileName |-> dir.vhdx[i].name, Size |-> dir.vhdx[i].size]]
       ELSE [i \in 1..Len(ovfDisks) |->
               IF statInDir(dir, ovfDisks[i].FileName).ok
               THEN [ovfDisks[i] EXCEPT
                       !.Size = statInDir(dir, ovfDisks[i].FileName).size]
               ELSE ovfDisks[i]]

\* Mutant: the generator is called with the position counted from 1.
discoverStorageMappings_IndexFromOne(dir) ==
    IF Len(dir.vhdx) = 0 THEN [err |-> TRUE, mappings |-> <<>>]
    ELSE
      LET diskInfo == diskInfoOf(dir)
      IN [err |-> FALSE,
          mappings |->
             [i \in 1..Len(diskInfo) |->
                [SourceID |-> IF generateStorageID(diskInfo[i], i).err
                              THEN generateFallbackStorageID(diskInfo[i].FileName, i)
                              ELSE generateStorageID(diskInfo[i], i).id,
                 DestinationStorageClass |-> destStorageClass]]]

discoverStorageMappings(dir) ==
    IF Len(dir.vhdx) = 0 THEN [err |-> TRUE, mappings |-> <<>>]
    ELSE
      LET diskInfo == diskInfoOf(dir)
      IN [err |-> FALSE,
          mappings |->
             [i \in 1..Len(diskInfo) |->
                [SourceID |-> IF generateStorageID(diskInfo[i], i - 1).err
                              THEN generateFallbackStorageID(diskInfo[i].FileName, i - 1)
                              ELSE generateStorageID(diskInfo[i], i - 1).id,
                 DestinationStorageClass |-> destStorageClass]]]

-----------------------------------------------------------------------------
(* RunOvaMigration *)

\* The documents, in the order RunOvaMigration writes and applies them.
Documents ==
    <<"ova-secret.yaml", "storage-map.yaml", "network-map.yaml",
      "ova-provider.yaml", "plan.yaml", "migration.yaml">>

Envs == [NAMESPACE : BOOLEAN, OVA_PROVIDER_NFS_SERVER_PATH : BOOLEAN]

ErrNetworks == "failed to discover network mappings"

ErrStorage == "failed to discover storage mappings"

ErrNamespace == "NAMESPACE environment variable not set"

ErrNfsPath == "OVA_PROVIDER_NFS_SERVER_PATH environment variable not set"

ErrCreate == "failed to create YAML"

ErrApply == "failed to apply YAML"

ErrMonitor == "migration monitoring failed"

MapIdle ==
    /\ dpc = "idle"
    /\ outDir = [ovfs |-> <<>>, vhdx |-> <<>>]
    /\ ovaVMName = ""
    /\ netOut = NoMappings
    /\ stoOut = NoMappings
    /\ env = [NAMESPACE |-> FALSE, OVA_PROVIDER_NFS_SERVER_PATH |-> FALSE]
    /\ rpc = "idle"
    /\ written = <<>>
    /\ applied = <<>>
    /\ monitorStarted = FALSE
    /\ runErr = ""

MapInit ==
    /\ dpc = "ready"
    /\ outDir \in OutputDirs
    /\ ovaVMName = "vm1"
    /\ netOut = NoMappings
    /\ stoOut = NoMappings
    /\ env \in Envs
    /\ rpc = "discover"
    /\ written = <<>>
    /\ applied = <<>>
    /\ monitorStarted = FALSE
    /\ runErr = ""

\* The descriptors the per-VM goroutines of main leave in one output
\* directory, vm1.ovf and vm2.ovf, in the (sorted) order Glob returns them;
\* vm is the VM the descriptor was compiled for.
VMDescriptors(name) ==
    { [readable |-> TRUE, networks |-> n, hrefs |-> h, vm |-> name] :
        n \in SeqsUpTo(NetworkNames, MaxNetworks),
        h \in {<<>>, <<FileName("disk1", ".raw")>>, <<FileName("disk1", ".vhdx")>>} }

SharedDirs ==
    { [ovfs |-> <<d1, d2>>, vhdx |-> v] :
        d1 \in VMDescriptors("vm1"), d2 \in VMDescriptors("vm2"), v \in VhdxLists }

\* A descriptor with more Network entries than the pool of confirmed
\* identifiers covers: the compiler writes one entry per adapter, named by
\* the adapter.
MaxNetList == 3

ManyNetInit ==
    /\ dpc = "ready"
    /\ \E n \in SeqsUpTo(NetworkNames, MaxNetList), v \in VhdxLists :
         outDir = [ovfs |-> <<[readable |-> TRUE, networks |-> n, hrefs |-> <<>>]>>,
                   vhdx |-> v]
    /\ ovaVMName = "vm1"
    /\ netOut = NoMappings
    /\ stoOut = NoMappings
    /\ env = [NAMESPACE |-> TRUE, OVA_PROVIDER_NFS_SERVER_PATH |-> TRUE]
    /\ rpc = "discover"
    /\ written = <<>>
    /\ applied = <<>>
    /\ monitorStarted = FALSE
    /\ runErr = ""

\* RunOvaMigration(names[0], outputDir) after several VMs were compiled:
\* the first listed VM is any of them.
SharedInit ==
    /\ dpc = "ready"
    /\ outDir \in SharedDirs
    /\ ovaVMName \in {"vm1", "vm2"}
    /\ netOut = NoMappings
    /\ stoOut = NoMappings
    /\ env = [NAMESPACE |-> TRUE, OVA_PROVIDER_NFS_SERVER_PATH |-> TRUE]
    /\ rpc = "discover"
    /\ written = <<>>
    /\ applied = <<>>
    /\ monitorStarted = FALSE
    /\ runErr = ""

\* RunOvaMigration: networkMappings, err := discoverNetworkMappings(outputDir)
DiscoverNetworks ==
    /\ dpc = "ready"
    /\ netOut' = discoverNetworkMappings(outDir)
    /\ dpc' = IF discoverNetworkMappings(outDir).err THEN "failed" ELSE "networks"
    /\ rpc' = IF discoverNetworkMappings(outDir).err THEN "returned" ELSE rpc
    /\ runErr' = IF discoverNetworkMappings(outDir).err THEN ErrNetworks ELSE runErr
    /\ UNCHANGED <<outDir, ovaVMName, stoOut, env, written, applied, monitorStarted>>
    /\ UNCHANGED notMap

\* Mutant: the error of discoverStorageMappings is dropped.
DiscoverStorage_ErrorDropped ==
    /\ dpc = "networks"
    /\ stoOut' = discoverStorageMappings(outDir)
    /\ dpc' = IF discoverStorageMappings(outDir).err THEN "failed" ELSE "done"
    /\ rpc' = "env"
    /\ UNCHANGED <<outDir, ovaVMName, netOut, env, written, applied, monitorStarted, runErr>>
    /\ UNCHANGED notMap

\* RunOvaMigration: storageMappings, err := discoverStorageMappings(outputDir),
\* then discoverVMID, which always returns the first known id.
DiscoverStorage ==
    /\ dpc = "networks"
    /\ stoOut' = discoverStorageMappings(outDir)
    /\ dpc' = IF discoverStorageMappings(outDir).err THEN "failed" ELSE "done"
    /\ rpc' = IF discoverStorageMappings(outDir).err THEN "returned" ELSE "env"
    /\ runErr' = IF discoverStorageMappings(outDir).err THEN ErrStorage ELSE runErr
    /\ UNCHANGED <<outDir, ovaVMName, netOut, env, written, applied, monitorStarted>>
    /\ UNCHANGED notMap

\* The two environment checks.
CheckEnv ==
    /\ rpc = "env"
    /\ IF ~env.NAMESPACE THEN rpc' = "returned" /\ runErr' = ErrNamespace
       ELSE IF ~env.OVA_PROVIDER_NFS_SERVER_PATH
         THEN rpc' = "returned" /\ runErr' = ErrNfsPath
       ELSE rpc' = "create" /\ runErr' = runErr
    /\ UNCHANGED <<dpc, outDir, ovaVMName, netOut, stoOut, env, written, applied, monitorStarted>>
    /\ UNCHANGED notMap

\* create...Yaml of the next document; writing the file may fail.
CreateDocument ==
    /\ rpc = "create"
    /\ \E ok \in BOOLEAN :
         IF ok THEN /\ written' = Append(written, Documents[Len(written) + 1])
                    /\ rpc' = "apply"
                    /\ runErr' = runErr
         ELSE /\ written' = written
              /\ rpc' = "returned"
              /\ runErr' = ErrCreate
    /\ UNCHANGED <<dpc, outDir, ovaVMName, netOut, stoOut, env, applied, monitorStarted>>
    /\ UNCHANGED notMap

\* Mutant: a failed apply is logged and the next document is written.
ApplyDocument_GoesOn ==
    /\ rpc = "apply"
    /\ \E ok \in BOOLEAN :
         /\ applied' = IF ok THEN Append(applied, Documents[Len(applied) + 1])
                       ELSE applied
         /\ rpc' = IF Len(written) = Len(Documents) THEN "monitor" ELSE "create"
         /\ runErr' = IF ok THEN runErr ELSE ErrApply
    /\ UNCHANGED <<dpc, outDir, ovaVMName, netOut, stoOut, env, written, monitorStarted>>
    /\ UNCHANGED notMap

\* applyYaml / applyYamlFile of the document just written; it may fail.
\* After the last document the monitor is next.
ApplyDocument ==
    /\ rpc = "apply"
    /\ \E ok \in BOOLEAN :
         IF ok THEN /\ applied' = Append(applied, Documents[Len(applied) + 1])
                    /\ rpc' = IF Len(applied) + 1 = Len(Documents) THEN "monitor"
                               ELSE "create"
                    /\ runErr' = runErr
         ELSE /\ applied' = applied
              /\ rpc' = "returned"
              /\ runErr' = ErrApply
    /\ UNCHANGED <<dpc, outDir, ovaVMName, netOut, stoOut, env, written, monitorStarted>>
    /\ UNCHANGED notMap

\* waitForMigrationComplete(namespace, migrationName, 15 minutes) and return.
RunMonitor ==
    /\ rpc = "monitor"
    /\ monitorStarted' = TRUE
    /\ rpc' = "returned"
    /\ \E ok \in BOOLEAN : runErr' = IF ok THEN "" ELSE ErrMonitor
    /\ UNCHANGED <<dpc, outDir, ovaVMName, netOut, stoOut, env, written, applied>>
    /\ UNCHANGED notMap

-----------------------------------------------------------------------------
(* Progress text: extractProgressPercentage *)

MaxSteps == 2

\* The progress text, line by line.
Line(kind, name, phase, progress) ==
    [kind |-> kind, name |-> name, phase |-> phase, progress |-> progress]

NoVMsFound == <<Line("message", "No VMs found in migration status", "", "")>>

\* unstructured.NestedString / NestedInt64 on one level: the zero value when
\* the key is missing or holds a value of another type.
NestedString(obj, key) ==
    IF key \in DOMAIN obj /\ IsStr(obj[key]) THEN obj[key].str ELSE ""

NestedInt64(obj, key) ==
    IF key \in DOMAIN obj /\ IsNum(obj[key]) THEN obj[key].num ELSE 0

\* Go's integer division truncates toward zero.
goDiv(a, b) == IF a >= 0 THEN a \div b ELSE -((-a) \div b)

\* Mutant: a positive total wins over the Completed phase.
percentage_TotalFirst(stepPhase, completed, total) ==
    IF total > 0 THEN ToString(goDiv(completed * 100, total)) \o "%"
    ELSE IF stepPhase = "Completed" THEN "100%"
    ELSE "?"

\* percentage := "?"; if total > 0 {...}; if stepPhase == "Completed" {...}
percentage(stepPhase, completed, total) ==
    IF stepPhase = "Completed" THEN "100%"
    ELSE IF total > 0 THEN ToString(goDiv(completed * 100, total)) \o "%"
    ELSE "?"

\* Mutant: an entry that is no map is handled as an empty map.
entryAsMap_Always(entry) == [ok |-> TRUE, map |-> IF IsMap(entry) THEN entry.map ELSE <<>>]

\* vm, ok := v.(map[string]interface{})
entryAsMap(entry) == [ok |-> IsMap(entry), map |-> IF IsMap(entry) THEN entry.map ELSE <<>>]

stepLine(stepMap) ==
    LET stepName == NestedString(stepMap, "name")
        stepPhase == NestedString(stepMap, "phase")
        progressMap == NestedMap(stepMap, "progress").val
        completed == NestedInt64(progressMap, "completed")
        total == NestedInt64(progressMap, "total")
    IN Line("step", stepName, stepPhase, percentage(stepPhase, completed, total))

RECURSIVE pipelineLines(_, _)
\* for _, step := range pipeline
pipelineLines(pipeline, i) ==
    IF i > Len(pipeline) THEN <<>>
    ELSE IF ~entryAsMap(pipeline[i]).ok THEN pipelineLines(pipeline, i + 1)
    ELSE <<stepLine(entryAsMap(pipeline[i]).map)>> \o pipelineLines(pipeline, i + 1)

vmLines(vmMap) ==
    LET name == NestedString(vmMap, "name")
        phase == NestedString(vmMap, "phase")
        pipeline == NestedSlice(vmMap, "pipeline")
    IN <<Line("vm", name, phase, "")>>
       \o (IF pipeline.found THEN pipelineLines(pipeline.val, 1) ELSE <<>>)
       \o <<Line("blank", "", "", "")>>

RECURSIVE vmsLines(_, _)
\* for _, v := range vms
vmsLines(vms, i) ==
    IF i > Len(vms) THEN <<>>
    ELSE IF ~entryAsMap(vms[i]).ok THEN vmsLines(vms, i + 1)
    ELSE vmLines(entryAsMap(vms[i]).map) \o vmsLines(vms, i + 1)

\* unstructured.NestedSlice(migration.Object, "status", "vms")
statusVMs(migration) ==
    LET status == NestedMap(migration, "status") IN
    IF ~status.found \/ status.err THEN status
    ELSE NestedSlice(status.val, "vms")

extractProgressPercentage(migration) ==
    LET vms == statusVMs(migration) IN
    IF vms.err \/ ~vms.found \/ Len(vms.val) = 0 THEN NoVMsFound
    ELSE vmsLines(vms.val, 1)

\* ---- inputs ----

Progress(completed, total) == JMap([completed |-> completed, total |-> total])

Step(name, phase, progress) == JMap([name |-> name, phase |-> phase, progress |-> progress])

StepValues ==
    { JStr("junk"),
      Step(JStr("DiskTransfer"), JStr("Running"), Progress(JNum(50), JNum(200))),
      Step(JStr("DiskTransfer"), JStr("Completed"), Progress(JNum(50), JNum(200))),
      JMap([name |-> JStr("Initialize"), phase |-> JStr("Completed")]),
      Step(JStr("DiskTransfer"), JStr("Running"), Progress(JNum(50), JNum(0))),
      Step(JStr("DiskTransfer"), JStr("Running"), JMap([total |-> JNum(200)])),
      JMap([phase |-> JStr("Running"), progress |-> JStr("junk")]),
      JMap([name |-> JStr("ImageConversion"),
            progress |-> Progress(JStr("50"), JNum(200))]),
      Step(JNum(7), JNum(7), Progress(JNum(250), JStr("200"))),
      Step(JStr("DiskTransfer"), JStr("Pending"), Progress(JNum(-1), JNum(200))) }

PipelineValues == {JStr("junk")} \cup {JList(q) : q \in SeqsUpTo(StepValues, MaxSteps)}

VMValues ==
    { JStr("junk"),
      JMap([name |-> JStr("vm1"), phase |-> JStr("CopyDisks")]),
      JMap([name |-> JNum(1), phase |-> JNil, pipeline |-> JList(<<>>)]) }
    \cup { JMap([name |-> JStr("vm1"), phase |-> JStr("CopyDisks"), pipeline |-> p]) :
              p \in PipelineValues }
    \cup { JMap([pipeline |-> p]) : p \in PipelineValues }

OtherVM ==
    JMap([name |-> JStr("vm2"), phase |-> JStr("Completed"),
          pipeline |-> JList(<<Step(JStr("DiskTransfer"), JStr("Completed"),
                                    Progress(JNum(200), JNum(200)))>>)])

VMsValues ==
    { JStr("junk"), JList(<<>>), JList(<<JStr("junk")>>) }
    \cup { JList(<<v>>) : v \in VMValues }
    \cup { JList(<<JStr("junk"), v, OtherVM>>) : v \in VMValues }

ConditionsValues ==
    { JStr("junk"),
      JList(<<>>),
      JList(<<JStr("junk"), Cond(JStr("Succeeded"), JStr("False"))>>),
      JList(<<Cond(JStr("Failed"), JStr("True"))>>),
      JList(<<JStr("junk"), Cond(JStr("Succeeded"), JStr("True"))>>) }

TickObjects ==
    { [kind |-> JStr("Migration")],
      [kind |-> JStr("Migration"), status |-> JStr("junk")],
      [kind |-> JStr("Migration"), status |-> JNil] }
    \cup { [kind |-> JStr("Migration"), status |-> JMap([vms |-> v])] : v \in VMsValues }
    \cup { [kind |-> JStr("Migration"), status |-> JMap([conditions |-> c])] :
              c \in ConditionsValues }
    \cup { [kind |-> JStr("Migration"), status |-> JMap([conditions |-> c, vms |-> v])] :
              c \in ConditionsValues, v \in VMsValues }

TickIdle ==
    /\ tickObj = NoMigration
    /\ tickOutcome = "none"
    /\ tickProgress = <<>>

TickInit ==
    /\ tickObj \in TickObjects
    /\ tickOutcome = "none"
    /\ tickProgress = <<>>

\* The body of case <-ticker.C once getMigration has returned tickObj.
Tick ==
    /\ tickOutcome = "none"
    /\ tickOutcome' = Classify(tickObj)
    /\ tickProgress' = IF Classify(tickObj) = "Polling"
                       THEN extractProgressPercentage(tickObj)
                       ELSE <<>>
    /\ UNCHANGED tickObj
    /\ UNCHANGED notTick

-----------------------------------------------------------------------------
(* Guest operating system: mapCaptionToOsType, GetOVFOperatingSystemID *)

UpperCase == "ABCDEFGHIJKLMNOPQRSTUVWXYZ"

LowerCase == "abcdefghijklmnopqrstuvwxyz"

toLowerChar(ch) ==
    IF \E i \in 1..Len(UpperCase) : SubSeq(UpperCase, i, i) = ch
    THEN LET i == CHOOSE i \in 1..Len(UpperCase) : SubSeq(UpperCase, i, i) = ch
         IN SubSeq(LowerCase, i, i)
    ELSE ch

RECURSIVE ToLower(_)
\* strings.ToLower
ToLower(str) ==
    IF Len(str) = 0 THEN ""
    ELSE toLowerChar(SubSeq(str, 1, 1)) \o ToLower(SubSeq(str, 2, Len(str)))

\* strings.Contains
Contains(str, substr) ==
    \E i \in 1..(Len(str) - Len(substr) + 1) : SubSeq(str, i, i + Len(substr) - 1) = substr

osNameToID ==
    [ otherGuest |-> 1,
      macosGuest |-> 2,
      attunixGuest |-> 3,
      dguxGuest |-> 4,
      windowsxpGuest |-> 5,
      windows2000Guest |-> 6,
      windows2003Guest |-> 7,
      vistaGuest |-> 8,
      windows7Guest |-> 9,
      windows8Guest |-> 10,
      windows81Guest |-> 11,
      windows10Guest |-> 103,
      windows10_64Guest |-> 103,
      windows11Guest |-> 103,
      windows11_64Guest |-> 103,
      windows7srv_guest |-> 13,
      windows7srv_64Guest |-> 13,
      windows8srv_guest |-> 112,
      windows8srv_64Guest |-> 112,
      windows2016srv_guest |-> 15,
      windows2016srv_64Guest |-> 15,
      windows2019srv_guest |-> 94,
      windows2019srv_64Guest |-> 94,
      windows2022srv_guest |-> 17,
      windows2022srv_64Guest |-> 17,
      rhel7Guest |-> 20,
      rhel8_64Guest |-> 21,
      ubuntuGuest |-> 22,
      ubuntu64Guest |-> 22,
      centosGuest |-> 24,
      centos64Guest |-> 24,
      debian10Guest |-> 26,
      debian10_64Guest |-> 26,
      fedoraGuest |-> 27,
      fedora64Guest |-> 27,
      slesGuest |-> 29,
      sles_64Guest |-> 30,
      solaris10Guest |-> 31,
      solaris11Guest |-> 32,
      freebsd11Guest |-> 33,
      freebsd12Guest |-> 34,
      oracleLinuxGuest |-> 35,
      oracleLinux64Guest |-> 36,
      otherLinuxGuest |-> 101,
      otherLinux64Guest |-> 101 ]

\* Mutant: no partial match.
GetOVFOperatingSystemID_ExactOnly(osName) ==
    LET key == ToLower(osName) IN
    IF key \in DOMAIN osNameToID THEN {osNameToID[key]} ELSE {1}

\* The ids a call can return: the range over the map visits the keys in an
\* order that differs from run to run, so any key that matches can be the
\* first one found.
GetOVFOperatingSystemID(osName) ==
    LET key == ToLower(osName)
        matching == {known \in DOMAIN osNameToID : Contains(key, ToLower(known))}
    IN IF key \in DOMAIN osNameToID THEN {osNameToID[key]}
       ELSE IF matching # {} THEN {osNameToID[known] : known \in matching}
       ELSE {1}

\* Mutant: the generic linux rule comes before the distributions.
mapCaptionToOsType_LinuxFirst(cap, architecture) ==
    LET c == ToLower(cap)
        a == ToLower(architecture)
    IN IF Contains(c, "windows server 2022")
         THEN (IF a = "64-bit" THEN "windows2022srv_64Guest" ELSE "windows2022srv_guest")
       ELSE IF Contains(c, "windows server 2019")
         THEN (IF a = "64-bit" THEN "windows2019srv_64Guest" ELSE "windows2019srv_guest")
       ELSE IF Contains(c, "windows server 2016")
         THEN (IF a = "64-bit" THEN "windows2016srv_64Guest" ELSE "windows2016srv_guest")
       ELSE IF Contains(c, "windows server 2012 r2")
         THEN (IF a = "64-bit" THEN "windows8srv_64Guest" ELSE "windows8srv_guest")
       ELSE IF Contains(c, "windows server 2012")
         THEN (IF a = "64-bit" THEN "windows8srv_64Guest" ELSE "windows8srv_guest")
       ELSE IF Contains(c, "windows server 2008 r2")
         THEN (IF a = "64-bit" THEN "windows7srv_64Guest" ELSE "windows7srv_guest")
       ELSE IF Contains(c, "windows 11")
         THEN (IF a = "64-bit" THEN "windows11_64Guest" ELSE "windows11Guest")
       ELSE IF Contains(c, "windows 10")
         THEN (IF a = "64-bit" THEN "windows10_64Guest" ELSE "windows10Guest")
       ELSE IF Contains(c, "windows 8.1")
         THEN (IF a = "64-bit" THEN "windows8_64Guest" ELSE "windows8Guest")
       ELSE IF Contains(c, "windows 8")
         THEN (IF a = "64-bit" THEN "windows8_64Guest" ELSE "windows8Guest")
       ELSE IF Contains(c, "windows 7")
         THEN (IF a = "64-bit" THEN "windows7_64Guest" ELSE "windows7Guest")
       ELSE IF Contains(c, "windows vista")
         THEN (IF a = "64-bit" THEN "vista_64Guest" ELSE "vistaGuest")
       ELSE IF Contains(c, "linux")
         THEN (IF a = "64-bit" THEN "otherLinux64Guest" ELSE "otherLinuxGuest")
       ELSE IF Contains(c, "ubuntu")
         THEN (IF a = "64-bit" THEN "ubuntu64Guest" ELSE "ubuntuGuest")
       ELSE IF Contains(c, "debian")
         THEN (IF a = "64-bit" THEN "debian10_64Guest" ELSE "debian10Guest")
       ELSE IF Contains(c, "centos")
         THEN (IF a = "64-bit" THEN "centos64Guest" ELSE "centosGuest")
       ELSE IF Contains(c, "red hat enterprise linux") \/ Contains(c, "rhel")
         THEN (IF a = "64-bit" THEN "rhel8_64Guest" ELSE "rhel7Guest")
       ELSE IF Contains(c, "suse")
         THEN (IF a = "64-bit" THEN "sles_64Guest" ELSE "slesGuest")
       ELSE IF Contains(c, "fedora")
         THEN (IF a = "64-bit" THEN "fedora64Guest" ELSE "fedoraGuest")
       ELSE IF Contains(c, "oracle linux")
         THEN (IF a = "64-bit" THEN "oracleLinux64Guest" ELSE "oracleLinuxGuest")
       ELSE "otherGuest"

mapCaptionToOsType(cap, architecture) ==
    LET c == ToLower(cap)
        a == ToLower(architecture)
    IN IF Contains(c, "windows server 2022")
         THEN (IF a = "64-bit" THEN "windows2022srv_64Guest" ELSE "windows2022srv_guest")
       ELSE IF Contains(c, "windows server 2019")
         THEN (IF a = "64-bit" THEN "windows2019srv_64Guest" ELSE "windows2019srv_guest")
       ELSE IF Contains(c, "windows server 2016")
         THEN (IF a = "64-bit" THEN "windows2016srv_64Guest" ELSE "windows2016srv_guest")
       ELSE IF Contains(c, "windows server 2012 r2")
         THEN (IF a = "64-bit" THEN "windows8srv_64Guest" ELSE "windows8srv_guest")
       ELSE IF Contains(c, "windows server 2012")
         THEN (IF a = "64-bit" THEN "windows8srv_64Guest" ELSE "windows8srv_guest")
       ELSE IF Contains(c, "windows server 2008 r2")
         THEN (IF a = "64-bit" THEN "windows7srv_64Guest" ELSE "windows7srv_guest")
       ELSE IF Contains(c, "windows 11")
         THEN (IF a = "64-bit" THEN "windows11_64Guest" ELSE "windows11Guest")
       ELSE IF Contains(c, "windows 10")
         THEN (IF a = "64-bit" THEN "windows10_64Guest" ELSE "windows10Guest")
       ELSE IF Contains(c, "windows 8.1")
         THEN (IF a = "64-bit" THEN "windows8_64Guest" ELSE "windows8Guest")
       ELSE IF Contains(c, "windows 8")
         THEN (IF a = "64-bit" THEN "windows8_64Guest" ELSE "windows8Guest")
       ELSE IF Contains(c, "windows 7")
         THEN (IF a = "64-bit" THEN "windows7_64Guest" ELSE "windows7Guest")
       ELSE IF Contains(c, "windows vista")
         THEN (IF a = "64-bit" THEN "vista_64Guest" ELSE "vistaGuest")
       ELSE IF Contains(c, "ubuntu")
         THEN (IF a = "64-bit" THEN "ubuntu64Guest" ELSE "ubuntuGuest")
       ELSE IF Contains(c, "debian")
         THEN (IF a = "64-bit" THEN "debian10_64Guest" ELSE "debian10Guest")
       ELSE IF Contains(c, "centos")
         THEN (IF a = "64-bit" THEN "centos64Guest" ELSE "centosGuest")
       ELSE IF Contains(c, "red hat enterprise linux") \/ Contains(c, "rhel")
         THEN (IF a = "64-bit" THEN "rhel8_64Guest" ELSE "rhel7Guest")
       ELSE IF Contains(c, "suse")
         THEN (IF a = "64-bit" THEN "sles_64Guest" ELSE "slesGuest")
       ELSE IF Contains(c, "fedora")
         THEN (IF a = "64-bit" THEN "fedora64Guest" ELSE "fedoraGuest")
       ELSE IF Contains(c, "oracle linux")
         THEN (IF a = "64-bit" THEN "oracleLinux64Guest" ELSE "oracleLinuxGuest")
       ELSE IF Contains(c, "linux")
         THEN (IF a = "64-bit" THEN "otherLinux64Guest" ELSE "otherLinuxGuest")
       ELSE "otherGuest"

Captions ==
    { "", "Microsoft Windows Server 2022 Datacenter", "Windows Server 2019 Standard",
      "Microsoft Windows Server 2016 Standard", "Microsoft Windows Server 2012 R2 Standard",
      "Microsoft Windows Server 2012 Datacenter", "Windows Server 2008 R2 Enterprise",
      "Microsoft Windows 11 Pro", "Microsoft Windows 10 Enterprise", "Windows 8.1 Pro",
      "Windows 8 Enterprise", "Windows 7 Ultimate", "Windows Vista Business",
      "Ubuntu 22.04", "Debian GNU/Linux 11", "CentOS Linux 7",
      "Red Hat Enterprise Linux 8.6", "RHEL 7", "SUSE Linux Enterprise Server 15",
      "Fedora Linux 38", "Oracle Linux Server 8", "Arch Linux", "FreeBSD 13",
      "Windows Server 2003", "Windows Server 2019 with Ubuntu on Windows 10" }

Archs == {"64-bit", "64-Bit", "32-bit", "x64", ""}

\* Names handed to GetOVFOperatingSystemID directly: every key of the table,
\* and names that are no key.
OsNames ==
    DOMAIN osNameToID
    \cup { "", "windows7_64Guest", "vista_64Guest", "UBUNTU64GUEST", "WINDOWS7SRV_GUEST",
           "my-centos64Guest-build", "rhel7Guest or fedoraGuest", "solaris" }

OsIdle ==
    /\ spc = "idle"
    /\ caption = ""
    /\ arch = ""
    /\ osType = ""
    /\ osID = 0

\* Either FormatFromHyperV is about to classify a caption, or the exported
\* lookup is called with a name of the caller's choice.
OsInit ==
    /\ osID = 0
    /\ \/ /\ spc = "start"
          /\ caption \in Captions
          /\ arch \in Archs
          /\ osType = ""
       \/ /\ spc = "token"
          /\ caption = ""
          /\ arch = ""
          /\ osType \in OsNames

\* osType := mapCaptionToOsType(guestOSInfo.Caption, guestOSInfo.OSArchitecture)
MapCaption ==
    /\ spc = "start"
    /\ osType' = mapCaptionToOsType(caption, arch)
    /\ spc' = "classified"
    /\ UNCHANGED <<caption, arch, osID>>
    /\ UNCHANGED notOs

\* ID: GetOVFOperatingSystemID(osType)
LookupID ==
    /\ spc \in {"classified", "token"}
    /\ osID' \in GetOVFOperatingSystemID(osType)
    /\ spc' = IF spc = "classified" THEN "done" ELSE "returned"
    /\ UNCHANGED <<caption, arch, osType>>
    /\ UNCHANGED notOs

-----------------------------------------------------------------------------
(* Compile, write the descriptor, discover: the two components in a row *)

\* Records whose drives and adapters are all objects.
PipeRecords ==
    { JMap([Name |-> JStr("vm1"),
            ProcessorCount |-> JNum(2),
            MemoryStartup |-> JNil,
            HardDrives |-> JList(hd),
            NetworkAdapters |-> JList(na)]) :
        hd \in SeqsUpTo({d \in DriveValues : IsMap(d)}, MaxDrives),
        na \in SeqsUpTo({a \in AdapterValues : IsMap(a)}, MaxAdapters) }

\* The descriptor as a file: MarshalOvf writes one File line per entry of
\* References (ovf:href is its Href) and one Network line per entry of the
\* Network Section (ovf:name is its Name); extract...FromOVF reads them back
\* line by line.
descriptorFile(envelope) ==
    [readable |-> TRUE,
     networks |-> [i \in 1..Len(envelope.NetworkSection) |->
                     envelope.NetworkSection[i].Name],
     hrefs |-> [i \in 1..Len(envelope.References) |-> envelope.References[i].Href]]

PipeInit ==
    /\ opc = "ready"
    /\ vm \in PipeRecords
    /\ \E wd \in WorkDirs : fsys = wd[1] @@ wd[2]
    /\ ovfOut = NoOutput
    /\ dpc = "idle"
    /\ \E v \in VhdxLists : outDir = [ovfs |-> <<>>, vhdx |-> v]
    /\ ovaVMName = "vm1"
    /\ netOut = NoMappings
    /\ stoOut = NoMappings
    /\ env = [NAMESPACE |-> TRUE, OVA_PROVIDER_NFS_SERVER_PATH |-> TRUE]
    /\ rpc = "idle"
    /\ written = <<>>
    /\ applied = <<>>
    /\ monitorStarted = FALSE
    /\ runErr = ""

\* os.WriteFile of the compiled descriptor as the .ovf file of the directory;
\* RunOvaMigration is called on that directory afterwards.
WriteDescriptor ==
    /\ opc = "done"
    /\ ovfOut.ok
    /\ dpc = "idle"
    /\ opc' = "written"
    /\ outDir' = [outDir EXCEPT !.ovfs = <<descriptorFile(ovfOut.env)>>]
    /\ dpc' = "ready"
    /\ rpc' = "discover"
    /\ UNCHANGED <<vm, fsys, ovfOut>>
    /\ UNCHANGED <<ovaVMName, netOut, stoOut, env, written, applied, monitorStarted, runErr>>
    /\ UNCHANGED <<monitorVars, genVars, tickVars, osVars, mainVars, copyVars>>

-----------------------------------------------------------------------------
(* main: one goroutine per VM, then the cluster stage *)

\* What Get-VM lists: one name per VM.
NameLists == { <<"vm1">>, <<"vm2">>, <<"vm1", "vm2">>, <<"vm2", "vm1">> }

\* What getVMInfo can hand back without an error: json.Unmarshal into an
\* interface{} gives an object, or an array when the name matches several VMs.
InfoResults ==
    { JMap([Name |-> JStr("vm"),
            HardDrives |-> JList(<<JMap([Path |-> JStr("C:\\VMs\\disk.vhdx")])>>)]),
      JMap([Name |-> JStr("vm")]),
      JList(<<>>) }

\* What GetGuestOSInfoFromVM can hand back without an error.
GuestResults ==
    { JMap([Caption |-> JStr("Microsoft Windows Server 2019")]),
      JList(<<JMap([Caption |-> JStr("Microsoft Windows Server 2019")])>>),
      JList(<<>>),
      JStr("") }

NoValue == [none |-> TRUE]

ExtractPath(v) ==
    IF /\ "HardDrives" \in DOMAIN v.map
       /\ IsList(v.map.HardDrives)
       /\ Len(v.map.HardDrives.list) > 0
       /\ IsMap(v.map.HardDrives.list[1])
       /\ "Path" \in DOMAIN v.map.HardDrives.list[1].map
       /\ IsStr(v.map.HardDrives.list[1].map.Path)
    THEN v.map.HardDrives.list[1].map.Path.str
    ELSE ""

ParseGuestOSInfo(data) ==
    IF IsMap(data) THEN [err |-> FALSE, guest |-> data]
    ELSE IF IsList(data) /\ Len(data.list) > 0 /\ IsMap(data.list[1])
      THEN [err |-> FALSE, guest |-> data.list[1]]
    ELSE [err |-> TRUE, guest |-> NoValue]

\* localFile := filepath.Join(outputDir, vmName+".vhdx") and the names made
\* from it: the raw file of ConvertVHDXToRaw, the descriptor of the compiler.
localFile(vmName) == FileName(vmName, ".vhdx")

rawFile(vmName) == FileName(vmName, ".raw")

ovfFile(vmName) == FileName(vmName, ".ovf")

VMs == DOMAIN names

MainIdle ==
    /\ names = <<>>
    /\ mainpc = "idle"
    /\ alive = FALSE
    /\ gpc = <<>>
    /\ failedAt = <<>>
    /\ vmInfoMap = <<>>
    /\ guestInfoJson = <<>>
    /\ outputFiles = {}
    /\ migrated = <<>>

\* main after LoadHyperVConnection, ListVMs and MkdirAll, before the loop.
MainInit ==
    /\ names \in NameLists
    /\ mainpc = "spawn"
    /\ alive = TRUE
    /\ gpc = [i \in DOMAIN names |-> "unborn"]
    /\ failedAt = [i \in DOMAIN names |-> ""]
    /\ vmInfoMap = [i \in DOMAIN names |-> NoValue]
    /\ guestInfoJson = [i \in DOMAIN names |-> NoValue]
    /\ outputFiles = {}
    /\ migrated = <<>>

\* log.Printf and return: the goroutine ends, wg.Done runs.
Skip(i, step) ==
    /\ gpc' = [gpc EXCEPT ![i] = "ended"]
    /\ failedAt' = [failedAt EXCEPT ![i] = step]

Goto(i, step) ==
    /\ gpc' = [gpc EXCEPT ![i] = step]
    /\ failedAt' = failedAt

\* for _, vmName := range names { wg.Add(1); go func(vmName string) {...} }
Spawn ==
    /\ alive
    /\ mainpc = "spawn"
    /\ LET i == CHOOSE k \in VMs : gpc[k] = "unborn" /\ \A j \in VMs : j < k => gpc[j] # "unborn"
       IN /\ Goto(i, "info")
          /\ mainpc' = IF i = Len(names) THEN "wait" ELSE "spawn"
    /\ UNCHANGED <<names, alive, vmInfoMap, guestInfoJson, outputFiles, migrated>>
    /\ UNCHANGED notMain

\* infoResult, err := PerformVMAction(.., GetVMInfo); on an error the VM is
\* skipped; vmInfoMap := infoResult.(map[string]interface{}) panics on a
\* result that is not an object, and a panic in a goroutine ends the process.
FetchInfo ==
    /\ alive
    /\ \E i \in VMs :
         /\ gpc[i] = "info"
         /\ \E failed \in BOOLEAN, infoResult \in InfoResults :
              IF failed
              THEN Skip(i, "info") /\ vmInfoMap' = vmInfoMap /\ alive' = alive
              ELSE IF ~IsMap(infoResult)
                THEN /\ Goto(i, "panicked")
                     /\ vmInfoMap' = vmInfoMap
                     /\ alive' = FALSE
              ELSE /\ Goto(i, "path")
                   /\ vmInfoMap' = [vmInfoMap EXCEPT ![i] = infoResult]
                   /\ alive' = alive
    /\ UNCHANGED <<names, mainpc, guestInfoJson, outputFiles, migrated>>
    /\ UNCHANGED notMain

\* remotePath, _ := ExtractPath(vmInfoMap); if remotePath == "" { return }
ExtractDiskPath ==
    /\ alive
    /\ \E i \in VMs :
         /\ gpc[i] = "path"
         /\ IF ExtractPath(vmInfoMap[i]) = "" THEN Skip(i, "path") ELSE Goto(i, "guest")
    /\ UNCHANGED <<names, mainpc, alive, vmInfoMap, guestInfoJson, outputFiles, migrated>>
    /\ UNCHANGED notMain

\* guestInfoJson, err := GetGuestOSInfoFromVM(...)
FetchGuestOS ==
    /\ alive
    /\ \E i \in VMs :
         /\ gpc[i] = "guest"
         /\ \E failed \in BOOLEAN, data \in GuestResults :
              IF failed THEN Skip(i, "guest") /\ guestInfoJson' = guestInfoJson
              ELSE Goto(i, "parse") /\ guestInfoJson' = [guestInfoJson EXCEPT ![i] = data]
    /\ UNCHANGED <<names, mainpc, alive, vmInfoMap, outputFiles, migrated>>
    /\ UNCHANGED notMain

\* guestOSMap, err := ParseGuestOSInfo(guestInfoJson);
\* vmInfoMap["GuestOSInfo"] = guestOSMap
ParseGuest ==
    /\ alive
    /\ \E i \in VMs :
         /\ gpc[i] = "parse"
         /\ IF ParseGuestOSInfo(guestInfoJson[i]).err
            THEN Skip(i, "parse") /\ vmInfoMap' = vmInfoMap
            ELSE /\ Goto(i, "shutdown")
                 /\ vmInfoMap' =
                      [vmInfoMap EXCEPT ![i] =
                         JMap([k \in DOMAIN vmInfoMap[i].map \cup {"GuestOSInfo"} |->
                                 IF k = "GuestOSInfo"
                                 THEN ParseGuestOSInfo(guestInfoJson[i]).guest
                                 ELSE vmInfoMap[i].map[k]])]
    /\ UNCHANGED <<names, mainpc, alive, guestInfoJson, outputFiles, migrated>>
    /\ UNCHANGED notMain

\* PerformVMAction(.., Shutdown)
ShutdownVM ==
    /\ alive
    /\ \E i \in VMs :
         /\ gpc[i] = "shutdown"
         /\ \E failed \in BOOLEAN :
              IF failed THEN Skip(i, "shutdown") ELSE Goto(i, "copy")
    /\ UNCHANGED <<names, mainpc, alive, vmInfoMap, guestInfoJson, outputFiles, migrated>>
    /\ UNCHANGED notMain

\* CopyRemoteFileWithProgress: the connection may fail; os.Create makes the
\* local file; the copy into it may fail.
CopyDisk ==
    /\ alive
    /\ \E i \in VMs :
         /\ gpc[i] = "copy"
         /\ \E outcome \in {"noConnection", "copyFailed", "copied"} :
              /\ IF outcome = "copied" THEN Goto(i, "convert") ELSE Skip(i, "copy")
              /\ outputFiles' = IF outcome = "noConnection" THEN outputFiles
                                ELSE outputFiles \cup {localFile(names[i])}
    /\ UNCHANGED <<names, mainpc, alive, vmInfoMap, guestInfoJson, migrated>>
    /\ UNCHANGED notMain

\* ConvertVHDXToRaw(localFile): virt-v2v, then the rename to the .raw name.
ConvertDisk ==
    /\ alive
    /\ \E i \in VMs :
         /\ gpc[i] = "convert"
         /\ \E failed \in BOOLEAN :
              IF failed THEN Skip(i, "convert") /\ outputFiles' = outputFiles
              ELSE /\ Goto(i, "compile")
                   /\ outputFiles' = outputFiles \cup {rawFile(names[i])}
    /\ UNCHANGED <<names, mainpc, alive, vmInfoMap, guestInfoJson, migrated>>
    /\ UNCHANGED notMain

\* ova.FormatFromHyperV(vmInfoMap, localFile): the descriptor of the VM is
\* written next to its disk, under the VM's name.
CompileDescriptor ==
    /\ alive
    /\ \E i \in VMs :
         /\ gpc[i] = "compile"
         /\ \E failed \in BOOLEAN :
              IF failed THEN Skip(i, "compile") /\ outputFiles' = outputFiles
              ELSE /\ Goto(i, "ended")
                   /\ outputFiles' = outputFiles \cup {ovfFile(names[i])}
    /\ UNCHANGED <<names, mainpc, alive, vmInfoMap, guestInfoJson, migrated>>
    /\ UNCHANGED notMain

\* Mutant: main goes on without waiting for the goroutines.
WaitAll_NoWait ==
    /\ alive
    /\ mainpc = "wait"
    /\ mainpc' = "login"
    /\ UNCHANGED <<names, alive, gpc, failedAt, vmInfoMap, guestInfoJson, outputFiles, migrated>>
    /\ UNCHANGED notMain

\* wg.Wait(): returns once every goroutine has run its deferred wg.Done.
WaitAll ==
    /\ alive
    /\ mainpc = "wait"
    /\ \A i \in VMs : gpc[i] = "ended"
    /\ mainpc' = "login"
    /\ UNCHANGED <<names, alive, gpc, failedAt, vmInfoMap, guestInfoJson, outputFiles, migrated>>
    /\ UNCHANGED notMain

\* ocp.LoginToCluster(); log.Fatalf on an error.
Login ==
    /\ alive
    /\ mainpc = "login"
    /\ \E failed \in BOOLEAN :
         IF failed THEN mainpc' = "fatal" /\ alive' = FALSE
         ELSE mainpc' = "migrate" /\ alive' = alive
    /\ UNCHANGED <<names, gpc, failedAt, vmInfoMap, guestInfoJson, outputFiles, migrated>>
    /\ UNCHANGED notMain

\* ocp.RunOvaMigration(names[0], outputDir); log.Fatalf on an error.
Migrate ==
    /\ alive
    /\ mainpc = "migrate"
    /\ migrated' = Append(migrated, names[1])
    /\ \E failed \in BOOLEAN : mainpc' = IF failed THEN "fatal" ELSE "exited"
    /\ alive' = FALSE
    /\ UNCHANGED <<names, gpc, failedAt, vmInfoMap, guestInfoJson, outputFiles>>
    /\ UNCHANGED notMain

-----------------------------------------------------------------------------
(* copyFileEfficient: the sendfile loop; sizes and offsets in MiB *)

chunkSize == 32

\* info.Size() of the source.
SourceSizes == {0, 10, 32, 40, 64, 70, 100, 128}

CopyIdle ==
    /\ cpc = "idle"
    /\ srcSize = 0
    /\ offset = 0
    /\ sent = <<>>
    /\ copyRet = ""

\* After srcFile.Stat(): size := info.Size(); var offset int64 = 0
CopyInit ==
    /\ cpc = "loop"
    /\ srcSize \in SourceSizes
    /\ offset = 0
    /\ sent = <<>>
    /\ copyRet = ""

\* chunk := int(remain); if chunk > chunkSize { chunk = chunkSize }
chunkOf(remain) == IF remain > chunkSize THEN chunkSize ELSE remain

\* What one unix.Sendfile(dstFd, srcFd, &offset, chunk) can transfer: all of
\* chunk, a part of it, or nothing (the source ends before the offset).
Transfers(chunk) == {chunk, chunk \div 2, 0}

\* Mutant: the loop leaves the offset to Sendfile, which has advanced it.
afterSendfile_Once(off, n) == off + n

\* The offset after one iteration: Sendfile advances *offset by n, then the
\* loop adds n again (offset += int64(n)).
afterSendfile(off, n) == (off + n) + n

\* One iteration of the loop with offset < size.
SendfileCall ==
    /\ cpc = "loop"
    /\ offset < srcSize
    /\ LET chunk == chunkOf(srcSize - offset) IN
       \E failed \in BOOLEAN, n \in Transfers(chunk) :
          IF failed
          THEN /\ cpc' = "done"
               /\ copyRet' = "err"
               /\ UNCHANGED <<offset, sent>>
          ELSE /\ sent' = Append(sent, [from |-> offset, count |-> chunk, n |-> n])
               /\ IF n = 0
                  THEN /\ cpc' = "done"
                       /\ copyRet' = "nil"
                       /\ offset' = offset
                  ELSE /\ cpc' = "loop"
                       /\ copyRet' = copyRet
                       /\ offset' = afterSendfile(offset, n)
    /\ srcSize' = srcSize
    /\ UNCHANGED notCopy

\* The loop ends with offset >= size: return nil
CopyReturn ==
    /\ cpc = "loop"
    /\ offset >= srcSize
    /\ cpc' = "done"
    /\ copyRet' = "nil"
    /\ UNCHANGED <<srcSize, offset, sent>>
    /\ UNCHANGED notCopy

-----------------------------------------------------------------------------
(* Specifications *)

MonitorSpecInit == MonitorInit /\ OvfIdle /\ MapIdle /\ GenIdle /\ TickIdle /\ OsIdle /\ MainIdle /\ CopyIdle

MonitorSpec == MonitorSpecInit /\ [][MonitorNext]_vars

\* Every getMigration call returns (the assumption of the termination claim);
\* time passes; select picks among its ready cases uniformly at random, so a
\* case that is ready again and again is eventually the one picked.
MonitorLive ==
    /\ MonitorSpec
    /\ WF_vars(Advance)
    /\ WF_vars(FetchOk \/ FetchFail)
    /\ SF_vars(SelectTimeout)

\* The monitor with a select that runs as soon as one of its cases is ready.
MonitorPromptNext ==
    \/ AdvanceBlocked
    \/ SelectTimeout
    \/ SelectTick
    \/ FetchFail
    \/ FetchOk

MonitorPrompt == MonitorSpecInit /\ [][MonitorPromptNext]_vars

OvfSpecInit == OvfInit /\ MonitorIdle /\ MapIdle /\ GenIdle /\ TickIdle /\ OsIdle /\ MainIdle /\ CopyIdle

OvfNext == Compile

OvfSpec == OvfSpecInit /\ [][OvfNext]_vars

MapSpecInit == MapInit /\ MonitorIdle /\ OvfIdle /\ GenIdle /\ TickIdle /\ OsIdle /\ MainIdle /\ CopyIdle

MapNext ==
    \/ DiscoverNetworks
    \/ DiscoverStorage
    \/ CheckEnv
    \/ CreateDocument
    \/ ApplyDocument
    \/ RunMonitor

MapSpec == MapSpecInit /\ [][MapNext]_vars

SharedSpecInit ==
    SharedInit /\ MonitorIdle /\ OvfIdle /\ GenIdle /\ TickIdle /\ OsIdle /\ MainIdle /\ CopyIdle

SharedNext ==
    \/ DiscoverNetworks
    \/ DiscoverStorage

SharedSpec == SharedSpecInit /\ [][SharedNext]_vars

ManyNetSpecInit ==
    ManyNetInit /\ MonitorIdle /\ OvfIdle /\ GenIdle /\ TickIdle /\ OsIdle /\ MainIdle /\ CopyIdle

ManyNetNext ==
    \/ DiscoverNetworks
    \/ DiscoverStorage

ManyNetSpec == ManyNetSpecInit /\ [][ManyNetNext]_vars

PipeSpecInit == PipeInit /\ MonitorIdle /\ GenIdle /\ TickIdle /\ OsIdle /\ MainIdle /\ CopyIdle

PipeNext ==
    \/ Compile
    \/ WriteDescriptor
    \/ DiscoverNetworks
    \/ DiscoverStorage

PipeSpec == PipeSpecInit /\ [][PipeNext]_vars

GenSpecInit == GenInit /\ MonitorIdle /\ OvfIdle /\ MapIdle /\ TickIdle /\ OsIdle /\ MainIdle /\ CopyIdle

GenNext ==
    \/ CallForkliftUUID
    \/ CallNetworkID
    \/ CallStorageID

GenSpec == GenSpecInit /\ [][GenNext]_vars

TickSpecInit == TickInit /\ MonitorIdle /\ OvfIdle /\ MapIdle /\ GenIdle /\ OsIdle /\ MainIdle /\ CopyIdle

TickNext == Tick

TickSpec == TickSpecInit /\ [][TickNext]_vars

OsSpecInit == OsInit /\ MonitorIdle /\ OvfIdle /\ MapIdle /\ GenIdle /\ TickIdle /\ MainIdle /\ CopyIdle

OsNext ==
    \/ MapCaption
    \/ LookupID

OsSpec == OsSpecInit /\ [][OsNext]_vars

CopySpecInit ==
    CopyInit /\ MonitorIdle /\ OvfIdle /\ MapIdle /\ GenIdle /\ TickIdle /\ OsIdle /\ MainIdle

CopyNext ==
    \/ SendfileCall
    \/ CopyReturn

CopySpec == CopySpecInit /\ [][CopyNext]_vars

MainSpecInit ==
    MainInit /\ MonitorIdle /\ OvfIdle /\ MapIdle /\ GenIdle /\ TickIdle /\ OsIdle /\ CopyIdle

MainNext ==
    \/ Spawn
    \/ FetchInfo
    \/ ExtractDiskPath
    \/ FetchGuestOS
    \/ ParseGuest
    \/ ShutdownVM
    \/ CopyDisk
    \/ ConvertDisk
    \/ CompileDescriptor
    \/ WaitAll
    \/ Login
    \/ Migrate

MainSpec == MainSpecInit /\ [][MainNext]_vars

-----------------------------------------------------------------------------
(* Progress monitor: properties *)

\* A condition {type: wanted, status: "True"} is present in the status of obj.
Present(obj, wanted) ==
    /\ "status" \in DOMAIN obj
    /\ IsMap(obj.status)
    /\ "conditions" \in DOMAIN obj.status.map
    /\ IsList(obj.status.map.conditions)
    /\ \E i \in 1..Len(obj.status.map.conditions.list) :
         obj.status.map.conditions.list[i] = Cond(JStr(wanted), JStr("True"))

Terminal == {"Succeeded", "Failed", "TimedOut"}

\* C1, as stated: the run ends Succeeded iff a Succeeded/True condition is
\* present in the fetched status, ends Failed iff a Failed/True condition is
\* present, and otherwise ends only by the deadline.
C1_Original ==
    mpc = "done" =>
        /\ result = "Succeeded" <=> Present(fetched, "Succeeded")
        /\ result = "Failed" <=> Present(fetched, "Failed")
        /\ result \notin {"Succeeded", "Failed", "FetchError"} =>
               result = "TimedOut" /\ ctxDone

\* C1, amended: the run ends Succeeded iff Succeeded/True is present in the
\* fetched status; it ends Failed iff Failed/True is present and Succeeded/True
\* is not; it ends TimedOut only once the deadline has elapsed and the last
\* fetched status (if any) holds neither condition.
C1_Outcome ==
    /\ result = "Succeeded" <=> Present(fetched, "Succeeded")
    /\ result = "Failed" <=>
           (Present(fetched, "Failed") /\ ~Present(fetched, "Succeeded"))
    /\ result = "TimedOut" =>
           /\ ctxDone
           /\ ~Present(fetched, "Succeeded")
           /\ ~Present(fetched, "Failed")
    /\ mpc = "done" <=> result # "Polling"
    /\ result = "Succeeded" => err = ""
    /\ result = "Failed" => err = ErrFailed

C1_Witness ==
    /\ mpc = "done"
    /\ result = "Failed"
    /\ Present(fetched, "Failed")
    /\ snapshots >= 1

TerminalStays ==
    result \in Terminal => UNCHANGED <<result, err, mpc, fetches, snapshots, fetched>>

\* C2: a run reaches at most one terminal state, a terminal state is
\* absorbing (no further fetch, no further snapshot, no change of outcome),
\* and the TimedOut error differs from the Failed error.
C2_Absorbing ==
    /\ [](result \in Terminal => mpc = "done")
    /\ [](result = "TimedOut" => err = ErrTimeout /\ err # ErrFailed /\ err # "")
    /\ [][TerminalStays]_vars

C2_Witness ==
    /\ mpc = "done"
    /\ result = "TimedOut"
    /\ fetches >= 1
    /\ ~tickPending

\* C3: when every fetch returns, every run terminates; a run that observes
\* no terminal condition and no fetch error ends TimedOut.
C3_Terminates ==
    /\ <>(mpc = "done")
    /\ [](mpc = "done" /\ result \notin {"Succeeded", "Failed", "FetchError"}
            => result = "TimedOut")

C3_Witness ==
    /\ mpc = "done"
    /\ result = "TimedOut"
    /\ fetches = MaxFetches
    /\ snapshots = MaxFetches

FailingTickPrintsNothing ==
    (fetchErr' /\ ~fetchErr) => (snapshots' = snapshots /\ fetches' = fetches)

FetchErrorStays ==
    fetchErr => UNCHANGED <<mpc, result, err, fetches, snapshots>>

\* C4: a failed fetch ends the run at that tick with the fetch error: no
\* retry, no later fetch, no snapshot for that tick, and an outcome that is
\* none of Succeeded, Failed, TimedOut.
C4_FetchErrorAborts ==
    /\ [](fetchErr => /\ mpc = "done"
                      /\ result = "FetchError"
                      /\ err = ErrFetch
                      /\ err \notin {"", ErrFailed, ErrTimeout})
    /\ [](fetchErr /\ fetches < MaxFetches => snapshots = fetches - 1)
    /\ [][FailingTickPrintsNothing]_vars
    /\ [][FetchErrorStays]_vars

C4_Witness ==
    /\ fetchErr
    /\ result = "FetchError"
    /\ fetches = 2
    /\ snapshots = 1

TickClassifies ==
    (mpc = "fetching" /\ mpc' # "fetching" /\ ~fetchErr') =>
        /\ (Present(fetched', "Succeeded") /\ Present(fetched', "Failed"))
              => (result' = "Succeeded" /\ mpc' = "done")
        /\ (~Present(fetched', "Succeeded") /\ ~Present(fetched', "Failed"))
              => /\ result' = "Polling"
                 /\ mpc' = "select"
                 /\ snapshots < MaxFetches => snapshots' = snapshots + 1

\* C5: within one fetched status the Succeeded scan runs first: a status
\* holding both terminal conditions ends the run Succeeded, and a status
\* holding neither leaves the monitor polling at that tick.
C5_SucceededFirst == [][TickClassifies]_vars

C5_Witness ==
    /\ result = "Succeeded"
    /\ Present(fetched, "Succeeded")
    /\ Present(fetched, "Failed")

DeadlineWins ==
    (mpc = "select" /\ ctxDone /\ mpc' # mpc) => (mpc' = "done" /\ result' = "TimedOut")

\* C25: once the deadline has expired and no fetch is in flight, the next
\* step of the monitor is the TimedOut return, also when a tick is pending.
C25_DeadlineFirst == [][DeadlineWins]_vars

\* The deadline has expired, a tick arrived at the same moment, and the
\* select took the tick: a fetch is in flight after the deadline.
FetchStartedAfterDeadline ==
    /\ mpc = "fetching"
    /\ ctxDone
    /\ timeout >= PollInterval
    /\ now = timeout

FirstFetchAfterInterval ==
    (mpc = "select" /\ mpc' = "fetching") => now >= PollInterval

-----------------------------------------------------------------------------
(* Descriptor compiler: properties *)

Compiled == opc = "done" /\ ovfOut.ok

\* The HardDrives / NetworkAdapters list of the record (empty when the field
\* is no list), and the positions in it that hold a drive or adapter object.
ListOf(v, field) ==
    IF IsMap(v) /\ IsList(v.map[field]) THEN v.map[field].list ELSE <<>>

Declared(list) == {k \in 1..Len(list) : IsMap(list[k])}

\* The position of the j-th declared entry.
NthDeclared(list, j) ==
    CHOOSE k \in Declared(list) : Cardinality({m \in Declared(list) : m < k}) = j - 1

RawFileMissing(hd) == fsys[hd.map.Path.path.stem] = Missing

\* C6: for a record with N hard drives (N entries of HardDrives that are
\* objects), a successful FormatFromHyperV yields exactly N Disks and N Files,
\* the i-th Disk refers to the i-th File, and every Disk's file reference
\* resolves to exactly one File.
C6_DisksMatchFiles ==
    Compiled =>
        LET N == Cardinality(Declared(ListOf(vm, "HardDrives")))
            files == ovfOut.env.References
            disks == ovfOut.env.DiskSection
        IN /\ Len(disks) = N
           /\ Len(files) = N
           /\ \A i \in 1..N :
                /\ disks[i].FileRef = files[i].ID
                /\ Cardinality({j \in 1..Len(files) : files[j].ID = disks[i].FileRef}) = 1

C6_Witness ==
    /\ Compiled
    /\ Len(ListOf(vm, "HardDrives")) = 3
    /\ Len(ovfOut.env.DiskSection) = 2
    /\ ovfOut.env.References[1].Href = ovfOut.env.References[2].Href

\* C7: the Items carry the instance ids 1, 2, 3, ... without gap or repeat, in
\* the order CPU, Memory, IDE controller, one Item per hard drive in record
\* order, one Item per network adapter in record order.
C7_InstanceIDs ==
    Compiled =>
        LET items == ovfOut.env.VirtualSystem.Items
            hds == ListOf(vm, "HardDrives")
            nas == ListOf(vm, "NetworkAdapters")
            nd == Cardinality(Declared(hds))
            nn == Cardinality(Declared(nas))
        IN /\ Len(items) = 3 + nd + nn
           /\ \A k \in 1..Len(items) : items[k].InstanceID = ToString(k)
           /\ items[1].ResourceType = 3
           /\ items[2].ResourceType = 4
           /\ items[3].ResourceType = 5
           /\ \A j \in 1..nd :
                /\ items[3 + j].ResourceType = 17
                /\ items[3 + j].ElementName = "Hard Disk " \o ToString(NthDeclared(hds, j))
           /\ \A j \in 1..nn :
                /\ items[3 + nd + j].ResourceType = 10
                /\ items[3 + nd + j].ElementName = "Ethernet " \o ToString(NthDeclared(nas, j))

C7_Witness ==
    /\ Compiled
    /\ Len(ovfOut.env.VirtualSystem.Items) = 6
    /\ Len(ListOf(vm, "HardDrives")) = 3
    /\ Len(ListOf(vm, "NetworkAdapters")) = 2
    /\ ovfOut.env.VirtualSystem.Items[6].ElementName = "Ethernet 2"

\* C8: every disk-drive Item (resource type 17) names exactly one Disk of the
\* Disk Section in its host-resource field, and its parent is the instance id
\* of an IDE-controller Item (resource type 5) of the same document.
C8_DiskItemReferences ==
    Compiled =>
        LET items == ovfOut.env.VirtualSystem.Items
            disks == ovfOut.env.DiskSection
        IN \A k \in 1..Len(items) :
             items[k].ResourceType = 17 =>
               /\ Cardinality({d \in 1..Len(disks) :
                      items[k].HostResource = "ovf:/disk/" \o disks[d].DiskID}) = 1
               /\ \E c \in 1..Len(items) :
                      /\ items[c].ResourceType = 5
                      /\ items[c].InstanceID = items[k].Parent

C8_Witness ==
    /\ Compiled
    /\ Len(ovfOut.env.DiskSection) = 3
    /\ ovfOut.env.VirtualSystem.Items[6].HostResource = "ovf:/disk/vmdisk3"
    /\ ovfOut.env.VirtualSystem.Items[6].Parent = "3"

\* C9: if the raw file of any declared hard drive cannot be statted, the
\* call returns an error and no descriptor; a returned descriptor holds the
\* statted size of every drive, never the 10 GiB fallback.
C9_AllOrNothing ==
    opc = "done" =>
        LET hds == ListOf(vm, "HardDrives") IN
        /\ (\E k \in Declared(hds) : RawFileMissing(hds[k])) =>
               (~ovfOut.ok /\ "env" \notin DOMAIN ovfOut)
        /\ ovfOut.ok =>
               \A i \in 1..Len(ovfOut.env.DiskSection) :
                  /\ ovfOut.env.DiskSection[i].Capacity # FallbackCapacity
                  /\ ovfOut.env.DiskSection[i].Capacity
                        = fsys[ovfOut.env.References[i].Href.stem]
                  /\ ovfOut.env.References[i].Size = ovfOut.env.DiskSection[i].Capacity

C9_Witness ==
    /\ opc = "done"
    /\ ~ovfOut.ok
    /\ LET hds == ListOf(vm, "HardDrives") IN
       /\ Len(hds) = 3
       /\ Declared(hds) = {1, 2, 3}
       /\ ~RawFileMissing(hds[1])
       /\ ~RawFileMissing(hds[2])
       /\ RawFileMissing(hds[3])

-----------------------------------------------------------------------------
(* Mapping assembler: properties *)

IsHex32(id) ==
    /\ Len(id) = 32
    /\ \A k \in 1..Len(id) : \E d \in 1..Len(HexDigits) : id[k] = HexDigits[d]

\* C10: every source identifier that discoverNetworkMappings or
\* discoverStorageMappings puts into a mapping is a string of exactly 32
\* lowercase hexadecimal characters.
C10_IdsAre32Hex ==
    /\ dpc \in {"networks", "done"} =>
          \A i \in 1..Len(netOut.mappings) : IsHex32(netOut.mappings[i].SourceID)
    /\ dpc = "done" =>
          \A i \in 1..Len(stoOut.mappings) : IsHex32(stoOut.mappings[i].SourceID)

\* The identifiers that do not come from a pool (positions past the pool's
\* end) are 32 hexadecimal characters.
DerivedIdsAre32Hex ==
    /\ dpc \in {"networks", "done"} =>
          \A i \in 1..Len(netOut.mappings) :
             (i > Len(knownNetworkIDs)) => IsHex32(netOut.mappings[i].SourceID)
    /\ dpc = "done" =>
          \A i \in 1..Len(stoOut.mappings) :
             (i > Len(knownStorageIDs)) => IsHex32(stoOut.mappings[i].SourceID)

-----------------------------------------------------------------------------
(* Identifier generator: properties *)

CallsOf(fn) == {i \in 1..Len(calls) : calls[i].fn = fn}

\* C11: generateForkliftUUID is deterministic and independent of the key: any
\* two calls made with the same object return the same result, whatever keys
\* they are given and whatever calls were made before them.
C11_KeyIndependent ==
    \A i, j \in CallsOf("generateForkliftUUID") :
        calls[i].object = calls[j].object => calls[i].ret = calls[j].ret

C11_Witness ==
    /\ Len(calls) = 2
    /\ \E i, j \in CallsOf("generateForkliftUUID") :
         /\ i < j
         /\ calls[i].object = calls[j].object
         /\ calls[i].key # calls[j].key
         /\ ~calls[i].ret.err
         /\ IsHex32(calls[j].ret.id)

InPool(pool, id) == \E k \in 1..Len(pool) : pool[k] = id

\* C12: the index alone chooses the mode: generateNetworkID(name, i) and
\* generateStorageID(disk, i) return the i-th pool entry (counting from 0)
\* when i is below the pool's size (1 and 2), whatever the name or disk, and
\* for every other i the identifier derived from the object, which is no pool
\* entry.
C12_IndexChoosesMode ==
    /\ Len(knownNetworkIDs) = 1
    /\ Len(knownStorageIDs) = 2
    /\ \A c \in CallsOf("generateNetworkID") :
         IF calls[c].index < Len(knownNetworkIDs)
         THEN calls[c].id = knownNetworkIDs[calls[c].index + 1]
         ELSE /\ calls[c].id = generateForkliftUUID(JStr(calls[c].name), "").id
              /\ IsHex32(calls[c].id)
              /\ ~InPool(knownNetworkIDs, calls[c].id)
    /\ \A c \in CallsOf("generateStorageID") :
         /\ ~calls[c].ret.err
         /\ IF calls[c].index < Len(knownStorageIDs)
            THEN calls[c].ret.id = knownStorageIDs[calls[c].index + 1]
            ELSE /\ calls[c].ret.id
                      = generateForkliftUUID(vmDisk(calls[c].disk, calls[c].index), "").id
                 /\ IsHex32(calls[c].ret.id)
                 /\ ~InPool(knownStorageIDs, calls[c].ret.id)

C12_Witness ==
    /\ Len(calls) = 2
    /\ calls[1].fn = "generateStorageID"
    /\ calls[2].fn = "generateStorageID"
    /\ calls[1].disk = calls[2].disk
    /\ calls[1].index = 1
    /\ calls[2].index = 2
    /\ calls[1].ret.id = knownStorageIDs[2]
    /\ IsHex32(calls[2].ret.id)

-----------------------------------------------------------------------------
(* Mapping assembler and RunOvaMigration: properties *)

NetworksReturned == netOut # NoMappings

StorageReturned == stoOut # NoMappings

\* C13: for a descriptor without Network entries discoverNetworkMappings
\* returns exactly one mapping, the default one (name "Network Adapter",
\* destination type "pod"); a list returned without error is never empty.
C13_DefaultNetwork ==
    NetworksReturned =>
        /\ (/\ Len(outDir.ovfs) > 0
            /\ outDir.ovfs[1].readable
            /\ Len(outDir.ovfs[1].networks) = 0)
              => /\ ~netOut.err
                 /\ Len(netOut.mappings) = 1
                 /\ netOut.mappings[1].SourceName = "Network Adapter"
                 /\ netOut.mappings[1].DestinationType = "pod"
        /\ ~netOut.err => Len(netOut.mappings) >= 1

C13_Witness ==
    /\ dpc = "networks"
    /\ ~netOut.err
    /\ Len(outDir.ovfs[1].networks) = 0
    /\ netOut.mappings = <<defaultNetworkMapping>>

\* C14: when the directory holds no disk file, discoverStorageMappings
\* returns an error and no mappings, and RunOvaMigration has then returned the
\* storage-discovery error with no document written or applied and the
\* monitor not started.
C14_NoDisksAborts ==
    (StorageReturned /\ Len(outDir.vhdx) = 0) =>
        /\ stoOut.err
        /\ stoOut.mappings = <<>>
        /\ rpc = "returned"
        /\ runErr = ErrStorage
        /\ written = <<>>
        /\ applied = <<>>
        /\ ~monitorStarted

C14_Witness ==
    /\ StorageReturned
    /\ Len(outDir.vhdx) = 0
    /\ ~netOut.err
    /\ stoOut.err
    /\ env.NAMESPACE
    /\ env.OVA_PROVIDER_NFS_SERVER_PATH
    /\ rpc = "returned"

\* C15: one mapping per discovered network and per discovered disk, in
\* discovery order: the k-th mapping holds the identifier the generator
\* gives for the k-th item and index k-1, with destination type "pod" (and
\* the network's name) for networks and storage class "nfs-csi" for disks.
C15_OnePerItemInOrder ==
    /\ (NetworksReturned /\ ~netOut.err /\ Len(outDir.ovfs[1].networks) > 0) =>
          LET networks == outDir.ovfs[1].networks IN
          /\ Len(netOut.mappings) = Len(networks)
          /\ \A k \in 1..Len(networks) :
               netOut.mappings[k] = [SourceID |-> generateNetworkID(networks[k], k - 1),
                                     SourceName |-> networks[k],
                                     DestinationType |-> "pod"]
    /\ (StorageReturned /\ ~stoOut.err) =>
          LET disks == diskInfoOf(outDir) IN
          /\ Len(stoOut.mappings) = Len(disks)
          /\ \A k \in 1..Len(disks) :
               stoOut.mappings[k] = [SourceID |-> generateStorageID(disks[k], k - 1).id,
                                     DestinationStorageClass |-> "nfs-csi"]

C15_Witness ==
    /\ StorageReturned
    /\ ~stoOut.err
    /\ Len(netOut.mappings) = 2
    /\ netOut.mappings[1].SourceName # netOut.mappings[2].SourceName
    /\ Len(stoOut.mappings) = 3
    /\ stoOut.mappings[1].SourceID = knownStorageIDs[1]
    /\ stoOut.mappings[2].SourceID = knownStorageIDs[2]
    /\ IsHex32(stoOut.mappings[3].SourceID)

-----------------------------------------------------------------------------
(* Compile-then-discover: properties *)

Piped == opc = "written" /\ StorageReturned

\* C16: for a descriptor compiled from a record with N hard drives,
\* discoverStorageMappings takes its disks from the File entries of that
\* descriptor and returns exactly N storage mappings, one per File entry in
\* descriptor order.
C16_DescriptorDisks ==
    Piped =>
        LET N == Cardinality(Declared(ListOf(vm, "HardDrives")))
            files == ovfOut.env.References
            disks == diskInfoOf(outDir)
        IN /\ ~stoOut.err
           /\ Len(stoOut.mappings) = N
           /\ Len(disks) = Len(files)
           /\ \A k \in 1..Len(files) : disks[k].FileName = files[k].Href

\* What happens instead: no File entry of a compiled descriptor passes the
\* ".vhdx" filter of extractDisksFromOVF, so the mappings are one per *.vhdx
\* file of the directory (or an error when there is none).
CompiledDescriptorYieldsNoDisk ==
    Piped =>
        /\ extractDisksFromOVF(outDir.ovfs[1]).disks = <<>>
        /\ \A k \in 1..Len(outDir.ovfs[1].hrefs) : outDir.ovfs[1].hrefs[k].ext = ".raw"
        /\ stoOut.err <=> Len(outDir.vhdx) = 0
        /\ ~stoOut.err => Len(stoOut.mappings) = Len(outDir.vhdx)

PipedTwoDrivesOneFile ==
    /\ Piped
    /\ Len(ovfOut.env.References) = 2
    /\ Len(outDir.vhdx) = 1
    /\ Len(stoOut.mappings) = 1

-----------------------------------------------------------------------------
(* Progress text: properties *)

\* The entries of status.vms that are objects, and the entries of an
\* object's pipeline that are objects, in order.
RenderedVMs(obj) ==
    IF /\ "status" \in DOMAIN obj
       /\ IsMap(obj.status)
       /\ "vms" \in DOMAIN obj.status.map
       /\ IsList(obj.status.map.vms)
    THEN SelectSeq(obj.status.map.vms.list, IsMap)
    ELSE <<>>

StepsOfVM(v) ==
    IF "pipeline" \in DOMAIN v.map /\ IsList(v.map.pipeline)
    THEN SelectSeq(v.map.pipeline.list, IsMap)
    ELSE <<>>

RECURSIVE StepsOfVMs(_, _)
StepsOfVMs(vmList, i) ==
    IF i > Len(vmList) THEN <<>>
    ELSE StepsOfVM(vmList[i]) \o StepsOfVMs(vmList, i + 1)

AllSteps(obj) == StepsOfVMs(RenderedVMs(obj), 1)

LinesOf(kind) == SelectSeq(tickProgress, LAMBDA l : l.kind = kind)

StepPhase(step) == NestedString(step.map, "phase")

StepCompleted(step) == NestedInt64(NestedMap(step.map, "progress").val, "completed")

StepTotal(step) == NestedInt64(NestedMap(step.map, "progress").val, "total")

\* C17: the line of every pipeline step shows "100%" when the step's phase is
\* "Completed", whatever completed and total are; otherwise the integer
\* quotient completed*100/total followed by "%" when total > 0 (50 of 200 is
\* "25%"); otherwise "?".
C17_StepProgress ==
    tickOutcome = "Polling" =>
        LET steps == AllSteps(tickObj)
            lines == LinesOf("step")
        IN /\ Len(lines) = Len(steps)
           /\ \A k \in 1..Len(steps) :
                /\ lines[k].progress =
                     IF StepPhase(steps[k]) = "Completed" THEN "100%"
                     ELSE IF StepTotal(steps[k]) > 0
                       THEN ToString(goDiv(StepCompleted(steps[k]) * 100,
                                           StepTotal(steps[k]))) \o "%"
                     ELSE "?"
                /\ (/\ StepPhase(steps[k]) # "Completed"
                    /\ StepCompleted(steps[k]) = 50
                    /\ StepTotal(steps[k]) = 200) => lines[k].progress = "25%"

C17_Witness ==
    /\ tickOutcome = "Polling"
    /\ Len(AllSteps(tickObj)) = 3
    /\ LinesOf("step")[1].progress = "100%"
    /\ StepTotal(AllSteps(tickObj)[1]) = 200
    /\ StepCompleted(AllSteps(tickObj)[1]) = 50
    /\ LinesOf("step")[2].progress = "25%"
    /\ LinesOf("step")[3].progress = "100%"

UsableConditions(obj) ==
    /\ "status" \in DOMAIN obj
    /\ IsMap(obj.status)
    /\ "conditions" \in DOMAIN obj.status.map
    /\ IsList(obj.status.map.conditions)

UsableVMs(obj) ==
    /\ "status" \in DOMAIN obj
    /\ IsMap(obj.status)
    /\ "vms" \in DOMAIN obj.status.map
    /\ IsList(obj.status.map.vms)
    /\ Len(obj.status.map.vms.list) > 0

TextOr(m, key, default) == IF key \in DOMAIN m /\ IsStr(m[key]) THEN m[key].str ELSE default

\* C18: every partially populated status is handled: the tick ends with one
\* of the three outcomes; without a usable conditions list it is Polling; the
\* text is the no-VMs message when there is no usable VM list; entries of
\* vms and pipeline that are no objects are skipped; a missing or wrongly
\* shaped name or phase is shown as the empty text, and a missing or wrongly
\* shaped completed or total counts as zero.
C18_Tolerant ==
    tickOutcome # "none" =>
        /\ tickOutcome \in {"Succeeded", "Failed", "Polling"}
        /\ ~UsableConditions(tickObj) => tickOutcome = "Polling"
        /\ tickOutcome = "Polling" =>
              IF ~UsableVMs(tickObj) THEN tickProgress = NoVMsFound
              ELSE LET vmList == RenderedVMs(tickObj)
                       steps == AllSteps(tickObj)
                   IN /\ Len(LinesOf("message")) = 0
                      /\ Len(LinesOf("vm")) = Len(vmList)
                      /\ Len(LinesOf("blank")) = Len(vmList)
                      /\ Len(LinesOf("step")) = Len(steps)
                      /\ \A k \in 1..Len(vmList) :
                           /\ LinesOf("vm")[k].name = TextOr(vmList[k].map, "name", "")
                           /\ LinesOf("vm")[k].phase = TextOr(vmList[k].map, "phase", "")
                      /\ \A k \in 1..Len(steps) :
                           /\ LinesOf("step")[k].name = TextOr(steps[k].map, "name", "")
                           /\ LinesOf("step")[k].phase = TextOr(steps[k].map, "phase", "")
                           /\ (StepPhase(steps[k]) # "Completed"
                                 /\ StepTotal(steps[k]) = 0)
                                 => LinesOf("step")[k].progress = "?"
                           /\ (StepPhase(steps[k]) # "Completed"
                                 /\ StepTotal(steps[k]) > 0
                                 /\ StepCompleted(steps[k]) = 0)
                                 => LinesOf("step")[k].progress = "0%"

C18_Witness ==
    /\ tickOutcome = "Polling"
    /\ ~UsableConditions(tickObj)
    /\ UsableVMs(tickObj)
    /\ Len(tickObj.status.map.vms.list) = 3
    /\ Len(RenderedVMs(tickObj)) = 2
    /\ Len(LinesOf("vm")) = 2
    /\ LinesOf("vm")[1].name = ""
    /\ "pipeline" \in DOMAIN RenderedVMs(tickObj)[1].map
    /\ IsList(RenderedVMs(tickObj)[1].map.pipeline)
    /\ Len(RenderedVMs(tickObj)[1].map.pipeline.list) = 2
    /\ Len(LinesOf("step")) = 2
    /\ LinesOf("step")[1] = Line("step", "", "", "?")

-----------------------------------------------------------------------------
(* Guest operating system: properties *)

\* The rules in their order: keywords, 32-bit token, 64-bit token.  The rhel
\* rule has two keywords.
OsRules ==
    << [keys |-> {"windows server 2022"}, guest |-> "windows2022srv_guest", guest64 |-> "windows2022srv_64Guest"],
       [keys |-> {"windows server 2019"}, guest |-> "windows2019srv_guest", guest64 |-> "windows2019srv_64Guest"],
       [keys |-> {"windows server 2016"}, guest |-> "windows2016srv_guest", guest64 |-> "windows2016srv_64Guest"],
       [keys |-> {"windows server 2012 r2"}, guest |-> "windows8srv_guest", guest64 |-> "windows8srv_64Guest"],
       [keys |-> {"windows server 2012"}, guest |-> "windows8srv_guest", guest64 |-> "windows8srv_64Guest"],
       [keys |-> {"windows server 2008 r2"}, guest |-> "windows7srv_guest", guest64 |-> "windows7srv_64Guest"],
       [keys |-> {"windows 11"}, guest |-> "windows11Guest", guest64 |-> "windows11_64Guest"],
       [keys |-> {"windows 10"}, guest |-> "windows10Guest", guest64 |-> "windows10_64Guest"],
       [keys |-> {"windows 8.1"}, guest |-> "windows8Guest", guest64 |-> "windows8_64Guest"],
       [keys |-> {"windows 8"}, guest |-> "windows8Guest", guest64 |-> "windows8_64Guest"],
       [keys |-> {"windows 7"}, guest |-> "windows7Guest", guest64 |-> "windows7_64Guest"],
       [keys |-> {"windows vista"}, guest |-> "vistaGuest", guest64 |-> "vista_64Guest"],
       [keys |-> {"ubuntu"}, guest |-> "ubuntuGuest", guest64 |-> "ubuntu64Guest"],
       [keys |-> {"debian"}, guest |-> "debian10Guest", guest64 |-> "debian10_64Guest"],
       [keys |-> {"centos"}, guest |-> "centosGuest", guest64 |-> "centos64Guest"],
       [keys |-> {"red hat enterprise linux", "rhel"}, guest |-> "rhel7Guest", guest64 |-> "rhel8_64Guest"],
       [keys |-> {"suse"}, guest |-> "slesGuest", guest64 |-> "sles_64Guest"],
       [keys |-> {"fedora"}, guest |-> "fedoraGuest", guest64 |-> "fedora64Guest"],
       [keys |-> {"oracle linux"}, guest |-> "oracleLinuxGuest", guest64 |-> "oracleLinux64Guest"],
       [keys |-> {"linux"}, guest |-> "otherLinuxGuest", guest64 |-> "otherLinux64Guest"] >>

RuleMatches(r, cap) == \E k \in OsRules[r].keys : Contains(ToLower(cap), k)

Classified == spc \in {"classified", "done"}

\* C19: mapCaptionToOsType always returns a token: that of the first rule, in
\* the rule order, with a keyword contained in the lower-cased caption, in its
\* 64-bit variant exactly when the lower-cased architecture is "64-bit", and
\* "otherGuest" when no rule matches (the empty caption included).
C19_FirstMatchWins ==
    Classified =>
        LET matching == {r \in 1..Len(OsRules) : RuleMatches(r, caption)} IN
        /\ IF matching = {} THEN osType = "otherGuest"
           ELSE LET first == CHOOSE r \in matching : \A q \in matching : r <= q IN
                osType = IF ToLower(arch) = "64-bit" THEN OsRules[first].guest64
                         ELSE OsRules[first].guest
        /\ caption = "" => osType = "otherGuest"
        /\ (caption = "Windows Server 2019 Standard" /\ arch = "64-bit")
              => osType = "windows2019srv_64Guest"
        /\ (caption = "Ubuntu 22.04" /\ arch = "64-bit") => osType = "ubuntu64Guest"

C19_Witness ==
    /\ spc = "classified"
    /\ caption = "Windows Server 2019 with Ubuntu on Windows 10"
    /\ arch = "64-Bit"
    /\ osType = "windows2019srv_64Guest"

\* A key of the table occurs in the name, letter case aside (both sides are
\* lower-cased before they are compared).
KeysIn(name) == {known \in DOMAIN osNameToID : Contains(ToLower(name), ToLower(known))}

-----------------------------------------------------------------------------
(* main: properties *)

Failed(i) == failedAt[i] # "" \/ gpc[i] = "panicked"

\* The goroutine of VM i ran every step of its pipeline.
RanAllSteps(i) == gpc[i] = "ended" /\ failedAt[i] = ""

\* C21: a failure at a step of one VM's pipeline ends only that pipeline:
\* every other VM's goroutine has ended by its own steps or can still run
\* them.
C21_FailureIsLocal ==
    \A i \in VMs : Failed(i) => \A j \in VMs \ {i} : gpc[j] = "ended" \/ alive

\* The failure that stays local: one VM skipped after a logged error, the
\* other one compiled.
LoggedFailureStaysLocal ==
    \E i, j \in VMs : failedAt[i] # "" /\ RanAllSteps(j)

\* The failure that does not: the info of one VM is not an object while
\* the other VM is in the middle of its pipeline.
PanicCutsOtherPipeline ==
    \E i, j \in VMs : gpc[i] = "panicked" /\ gpc[j] \in {"copy", "convert", "compile"}

InClusterStage == mainpc \in {"login", "migrate", "exited", "fatal"}

\* C23: the cluster stage starts only after every goroutine has ended, and
\* no goroutine takes a step at or after its start.
C23_ClusterAfterVMs ==
    [][InClusterStage' => \A i \in VMs : gpc[i] = "ended" /\ gpc'[i] = "ended"]_vars

C23_Witness ==
    /\ mainpc = "migrate"
    /\ \E i, j \in VMs : failedAt[i] # "" /\ RanAllSteps(j)

\* C24: RunOvaMigration is called for a VM name only if the pipeline of
\* that VM ended with its descriptor compiled.
C24_OnlyCompiledMigrated ==
    \A k \in DOMAIN migrated :
        \E i \in VMs : names[i] = migrated[k] /\ RanAllSteps(i)

\* The first VM was skipped, another one compiled, and the first is migrated.
SkippedVMMigrated ==
    /\ Len(migrated) = 1
    /\ \E i, j \in VMs :
         names[i] = migrated[1] /\ failedAt[i] # "" /\ RanAllSteps(j)

-----------------------------------------------------------------------------
(* RunOvaMigration: the documents and the monitor *)

IsPrefix(s, t) == Len(s) <= Len(t) /\ \A i \in 1..Len(s) : s[i] = t[i]

DocumentFailed == runErr \in {ErrCreate, ErrApply}

\* C22: the documents are written and applied one after the other in the
\* order secret, storage map, network map, provider, plan, migration; the
\* monitor starts only after all six are applied; a failed write or apply
\* is returned at once, and after it no document is written or applied and
\* the monitor is not started.
C22_OrderedNoRetry ==
    /\ [](/\ IsPrefix(written, Documents)
          /\ IsPrefix(applied, written)
          /\ Len(written) <= Len(applied) + 1
          /\ (monitorStarted => applied = Documents)
          /\ (DocumentFailed => rpc = "returned" /\ ~monitorStarted))
    /\ [][DocumentFailed' =>
            /\ written' = written
            /\ applied' = applied
            /\ monitorStarted' = monitorStarted]_vars

\* The apply of the network map (the third document) failed.
C22_Witness ==
    /\ runErr = ErrApply
    /\ rpc = "returned"
    /\ Len(written) = 3
    /\ Len(applied) = 2
    /\ ~monitorStarted

-----------------------------------------------------------------------------
(* RunOvaMigration on a directory of several VMs *)

\* The output directory as it would be with the descriptor of the migrated
\* VM alone.
OwnDir ==
    [outDir EXCEPT !.ovfs = SelectSeq(outDir.ovfs, LAMBDA d : d.vm = ovaVMName)]

\* C27: with the descriptors of several VMs in the output directory, the
\* network and storage mappings are those of the migrated VM's own
\* descriptor.
C27_OwnDescriptor ==
    /\ NetworksReturned => netOut = discoverNetworkMappings(OwnDir)
    /\ StorageReturned => stoOut = discoverStorageMappings(OwnDir)

\* vm2 is migrated with the network mapping of vm1's descriptor.
MappingsOfAnotherVM ==
    /\ ovaVMName = "vm2"
    /\ NetworksReturned
    /\ StorageReturned
    /\ Len(outDir.ovfs[1].networks) = 2
    /\ Len(outDir.ovfs[2].networks) = 1
    /\ Len(netOut.mappings) = 2
    /\ netOut.mappings[2].SourceName = outDir.ovfs[1].networks[2]

-----------------------------------------------------------------------------
(* discoverNetworkMappings on a descriptor with many networks *)

\* C28: within one discovery pass the networks found at different
\* positions of the descriptor get different source identifiers.
C28_DistinctSourceIDs ==
    NetworksReturned =>
        \A i, j \in 1..Len(netOut.mappings) :
            i # j => netOut.mappings[i].SourceID # netOut.mappings[j].SourceID

\* Networks of different names do get different identifiers, at every
\* position.
DifferentNamesDifferentIDs ==
    NetworksReturned =>
        \A i, j \in 1..Len(netOut.mappings) :
            netOut.mappings[i].SourceName # netOut.mappings[j].SourceName
                => netOut.mappings[i].SourceID # netOut.mappings[j].SourceID

\* The second and third network carry the same name, lie beyond the pool
\* and share one identifier.
SameNameSameID ==
    /\ NetworksReturned
    /\ Len(netOut.mappings) = 3
    /\ netOut.mappings[2].SourceName = netOut.mappings[3].SourceName
    /\ netOut.mappings[2].SourceID = netOut.mappings[3].SourceID
    /\ netOut.mappings[1].SourceID = knownNetworkIDs[1]

-----------------------------------------------------------------------------
(* copyFileEfficient: properties *)

\* The ranges handed to Sendfile follow one another from offset 0 and end
\* at the size of the source.
Contiguous ==
    /\ srcSize > 0 => Len(sent) > 0
    /\ Len(sent) > 0 => sent[1].from = 0
    /\ \A k \in 1..(Len(sent) - 1) : sent[k + 1].from = sent[k].from + sent[k].n
    /\ Len(sent) > 0 => sent[Len(sent)].from + sent[Len(sent)].n = srcSize

\* C29: when copyFileEfficient returns nil, the ranges its Sendfile calls
\* transferred are contiguous from 0 to the size of the source.
C29_EveryByteOnce == (cpc = "done" /\ copyRet = "nil") => Contiguous

\* A source of 100 MiB, every Sendfile call moves all it is asked for, and
\* nil is returned after two calls that moved 0-32 and 64-96.
BytesSkipped ==
    /\ cpc = "done"
    /\ copyRet = "nil"
    /\ srcSize = 100
    /\ Len(sent) = 2
    /\ sent[1] = [from |-> 0, count |-> 32, n |-> 32]
    /\ sent[2] = [from |-> 64, count |-> 32, n |-> 32]

\* A source of at most one chunk that Sendfile moves in one call is copied
\* whole.
OneChunkCopied ==
    (/\ cpc = "done"
     /\ copyRet = "nil"
     /\ srcSize <= chunkSize
     /\ \A k \in 1..Len(sent) : sent[k].n = sent[k].count) => Contiguous

-----------------------------------------------------------------------------
(* GetOVFOperatingSystemID: determinism *)

\* C30: GetOVFOperatingSystemID is deterministic: the id a call returned
\* for a token is the id every call with that token returns, whatever the
\* order in which the table is iterated.
C30_Deterministic ==
    spc \in {"done", "returned"} =>
        \A id \in GetOVFOperatingSystemID(osType) : id = osID

\* A token that contains two keys of different ids: one call returned the
\* id of rhel7Guest, another call with the same token can return that of
\* fedoraGuest.
TwoIdsForOneToken ==
    /\ spc = "returned"
    /\ osType = "rhel7Guest or fedoraGuest"
    /\ osID = osNameToID["rhel7Guest"]
    /\ osNameToID["fedoraGuest"] \in GetOVFOperatingSystemID(osType)
    /\ osNameToID["fedoraGuest"] # osID

\* The tokens the classifier produces are looked up with one result each.
ClassifiedTokensDeterministic ==
    spc = "done" => GetOVFOperatingSystemID(osType) = {osID}

=============================================================================
